---- MODULE Spec2Model ----
(***************************************************************************)
(* Model of the practice-session store of my-flash-cards                   *)
(* (src/src/store/session.ts, the pinia store `useSessionStore`).          *)
(*                                                                         *)
(* The store's refs are the variables; its computed getters are operators  *)
(* over them; startSession, recordResult and reset are the actions.        *)
(* Array positions are 0-based in the source and 1-based here: the source's*)
(* cards[currentCardIndex] is cards[currentCardIndex + 1].                 *)
(***************************************************************************)
EXTENDS Integers, Sequences, FiniteSets, TLC

\* ------------------------------------------------------------------ bounds

\* Number of distinct cards a caller can hand to startSession.
NumCards == 2

\* Longest card list handed to startSession.
MaxCards == 2

\* recordResult calls counted since the last startSession/reset (saturating).
MaxCalls == MaxCards + 2

\* ------------------------------------------------------------------- types

\* CardDirection (types/index.ts): the direction policy of a session.
FORWARD == "spanish-to-english"
REVERSE == "english-to-spanish"
RANDOM == "random"
CardDirection == {FORWARD, REVERSE, RANDOM}

\* Texts of the cards of the pool; the last pair has equal faces.
SpanishText == <<"hola", "gato", "sol", "no">>
EnglishText == <<"hello", "cat", "sun", "no">>

\* Card (types/index.ts): the fields the session store reads.
Card(i) == [id |-> i, frontText |-> SpanishText[i], backText |-> EnglishText[i]]

CardPool == {Card(i) : i \in 1..NumCards}

\* Every Card[] of at most MaxCards cards (an empty list and repeats included).
CardLists == UNION {[1..n -> CardPool] : n \in 0..MaxCards}

\* JavaScript's null, the value of currentCard when no card is current.
null == [id |-> 0, frontText |-> "", backText |-> ""]

\* Math.random() in hundredths: values of [0, 1) on both sides of 0.5.
RandomDraws == {0, 49, 50, 99}

\* Math.random() is called only on the random policy's path.
DrawsFor(isRandom) == IF isRandom THEN RandomDraws ELSE {0}

\* ------------------------------------------------------------------- state

VARIABLES
    cards,                  \* ref<Card[]>
    direction,              \* ref<CardDirection>: the policy of the run
    currentCardIndex,       \* ref<number>
    results,                \* ref<CardResult[]>
    currentCardDirection,   \* resolved direction of the current card
    lastCall,               \* the last store call: its name, arguments and path
    calls                   \* recordResult calls since the last startSession/reset

\* The practice view (views/PracticeSession.vue).
VARIABLES
    isFlipped,              \* ref<boolean>
    isTransitioning,        \* ref<boolean>
    timers,                 \* pending setTimeout callbacks of answerCard
    dispatches,             \* the fetches of recordAttemptToDatabase, in order
    route                   \* the route the router shows

\* One evaluation of calculateNextReview (server/src/spacedRepetition.ts).
VARIABLES
    calcIn,                 \* its arguments
    calcOut                 \* its return value, once it has run

\* The server (server/src/index.ts) and its database (server/src/schema.ts).
VARIABLES
    now,                    \* the clock, in days
    cardAttempts,           \* table card_attempts, in insertion order
    cardSchedule,           \* table card_schedule, in insertion order
    lastHttp,               \* the last response sent
    reqs                    \* POST /api/attempts requests being handled

\* The deck list view (views/DeckList.vue).
VARIABLES
    decks,                  \* ref<Deck[]>: the ids of the decks fetched
    selectedDeckId,         \* ref<number | null>, 0 for null
    selectedDirection,      \* ref<CardDirection>
    quizSize,               \* ref<number | null>, 0 for null
    selectedTags,           \* ref<string>, as its comma-separated pieces
    loading,                \* ref<boolean>
    error,                  \* ref<string>
    pending,                \* the fetch the view awaits
    startTrace              \* the lists of the last start that reached the store

\* Login sessions (authMiddleware and the auth routes of server/src/index.ts).
VARIABLES
    sessions,               \* table sessions
    issued,                 \* session ids generated so far
    deleted,                \* the rows a logout has deleted
    authReqs                \* the request of each client being handled

storeVars == <<cards, direction, currentCardIndex, results, currentCardDirection>>
deckVars == <<decks, selectedDeckId, selectedDirection, quizSize, selectedTags,
              loading, error, pending, startTrace>>
authVars == <<sessions, issued, deleted, authReqs>>
viewVars == <<isFlipped, isTransitioning, timers, dispatches, route>>
calcVars == <<calcIn, calcOut>>
serverVars == <<now, cardAttempts, cardSchedule, lastHttp, reqs>>
vars == <<cards, direction, currentCardIndex, results, currentCardDirection,
          lastCall, calls, viewVars, calcVars, serverVars, deckVars, authVars>>

\* No request, no response, nothing computed.
NONE == [op |-> "none"]

\* The view before it is mounted.
ViewIdle ==
    /\ isFlipped = FALSE
    /\ isTransitioning = FALSE
    /\ timers = [record |-> <<>>, fade |-> 0]
    /\ dispatches = <<>>
    /\ route = "DeckList"

\* calculateNextReview not called.
CalcIdle ==
    /\ calcIn = NONE
    /\ calcOut = NONE

\* The deck list view not mounted.
DeckIdle ==
    /\ decks = <<>>
    /\ selectedDeckId = 0
    /\ selectedDirection = FORWARD
    /\ quizSize = 0
    /\ selectedTags = <<"">>
    /\ loading = FALSE
    /\ error = ""
    /\ pending = NONE
    /\ startTrace = NONE

\* No login session stored, no request made.
AuthIdle ==
    /\ sessions = {}
    /\ issued = 0
    /\ deleted = {}
    /\ authReqs = [client \in {"browser", "other"} |-> NONE]

\* The server just started on a database with no attempt and no schedule.
ServerIdle ==
    /\ now = 0
    /\ cardAttempts = <<>>
    /\ cardSchedule = <<>>
    /\ lastHttp = NONE
    /\ reqs = <<>>

\* ----------------------------------------------------------------- getters

\* computed currentCard
currentCard ==
    IF currentCardIndex >= Len(cards) THEN null ELSE cards[currentCardIndex + 1]

\* computed frontText: the old store read `direction` here
frontText_usesPolicy ==
    IF currentCard = null THEN ""
    ELSE IF direction = FORWARD THEN currentCard.frontText
         ELSE currentCard.backText

\* computed frontText
frontText ==
    IF currentCard = null THEN ""
    ELSE IF currentCardDirection = FORWARD THEN currentCard.frontText
         ELSE currentCard.backText

\* computed backText
backText ==
    IF currentCard = null THEN ""
    ELSE IF currentCardDirection = FORWARD THEN currentCard.backText
         ELSE currentCard.frontText

\* isSessionComplete with a strict comparison
isSessionComplete_strict == currentCardIndex > Len(cards)

\* computed isSessionComplete
isSessionComplete == currentCardIndex >= Len(cards)

\* results.filter(r => r.correct)
IsCorrect(r) == r.correct

\* stats that reports the size of the deck instead of the recorded results
stats_countsCards ==
    LET correctCount == Len(SelectSeq(results, IsCorrect))
    IN  [totalCards |-> Len(cards),
         correctCount |-> correctCount,
         missedCount |-> Len(cards) - correctCount]

\* computed stats
stats ==
    LET correctCount == Len(SelectSeq(results, IsCorrect))
    IN  [totalCards |-> Len(results),
         correctCount |-> correctCount,
         missedCount |-> Len(results) - correctCount]

\* Idle: no run; InProgress: a card is current; Complete: the run is exhausted.
Phase ==
    IF Len(cards) = 0 THEN "Idle"
    ELSE IF currentCardIndex < Len(cards) THEN "InProgress"
    ELSE "Complete"

\* -------------------------------------------------------------- operations

\* randomizeCurrentDirection: the direction chosen for Math.random() = r / 100
randomizeCurrentDirection(r) == IF r < 50 THEN FORWARD ELSE REVERSE

\* The record of a store call: its name and arguments, the phase and position it
\* was made in, whether it called randomizeCurrentDirection, whether it threw.
Call(op, arg, drew, threw) ==
    [op |-> op, arg |-> arg, from |-> Phase, fromIndex |-> currentCardIndex,
     drew |-> drew, threw |-> threw]

\* startSession that forgets to clear the previous run's results
startSession_keepsResults(sessionCards, sessionDirection, r) ==
    /\ cards' = sessionCards
    /\ direction' = sessionDirection
    /\ currentCardIndex' = 0
    /\ results' = results
    /\ currentCardDirection' =
          IF sessionDirection = RANDOM THEN randomizeCurrentDirection(r)
          ELSE sessionDirection
    /\ lastCall' = Call("startSession", <<sessionCards, sessionDirection>>,
                        sessionDirection = RANDOM, FALSE)
    /\ calls' = 0

\* startSession that forgets to rewind the position
startSession_keepsIndex(sessionCards, sessionDirection, r) ==
    /\ cards' = sessionCards
    /\ direction' = sessionDirection
    /\ currentCardIndex' = currentCardIndex
    /\ results' = <<>>
    /\ currentCardDirection' =
          IF sessionDirection = RANDOM THEN randomizeCurrentDirection(r)
          ELSE sessionDirection
    /\ lastCall' = Call("startSession", <<sessionCards, sessionDirection>>,
                        sessionDirection = RANDOM, FALSE)
    /\ calls' = 0

\* startSession(sessionCards, sessionDirection); r is the Math.random() draw.
\* There is no test of sessionCards.length: an empty list is taken like any other.
startSession(sessionCards, sessionDirection, r) ==
    /\ cards' = sessionCards
    /\ direction' = sessionDirection
    /\ currentCardIndex' = 0
    /\ results' = <<>>
    /\ currentCardDirection' =
          IF sessionDirection = RANDOM THEN randomizeCurrentDirection(r)
          ELSE sessionDirection
    /\ lastCall' = Call("startSession", <<sessionCards, sessionDirection>>,
                        sessionDirection = RANDOM, FALSE)
    /\ calls' = 0

Saturate(n) == IF n < MaxCalls THEN n + 1 ELSE MaxCalls

\* recordResult without its first line: currentCard.value.id is read on null,
\* which throws a TypeError before anything is written
recordResult_noGuard(correct, r) ==
    /\ calls' = Saturate(calls)
    /\ IF currentCard = null
       THEN /\ UNCHANGED storeVars
            /\ lastCall' = Call("recordResult", <<correct>>, FALSE, TRUE)
       ELSE LET next == currentCardIndex + 1
                draws == direction = RANDOM /\ next < Len(cards)
            IN  /\ results' = Append(results,
                                     [cardId |-> currentCard.id, correct |-> correct])
                /\ currentCardIndex' = next
                /\ currentCardDirection' =
                      IF draws THEN randomizeCurrentDirection(r)
                      ELSE currentCardDirection
                /\ UNCHANGED <<cards, direction>>
                /\ lastCall' = Call("recordResult", <<correct>>, draws, FALSE)

\* recordResult with results.unshift in place of results.push
recordResult_prepends(correct, r) ==
    /\ calls' = Saturate(calls)
    /\ IF currentCard = null
       THEN /\ UNCHANGED storeVars
            /\ lastCall' = Call("recordResult", <<correct>>, FALSE, FALSE)
       ELSE LET next == currentCardIndex + 1
                draws == direction = RANDOM /\ next < Len(cards)
            IN  /\ results' = <<[cardId |-> currentCard.id, correct |-> correct]>>
                                 \o results
                /\ currentCardIndex' = next
                /\ currentCardDirection' =
                      IF draws THEN randomizeCurrentDirection(r)
                      ELSE currentCardDirection
                /\ UNCHANGED <<cards, direction>>
                /\ lastCall' = Call("recordResult", <<correct>>, draws, FALSE)

\* recordResult that draws after every accepted outcome, the last one included
recordResult_alwaysDraws(correct, r) ==
    /\ calls' = Saturate(calls)
    /\ IF currentCard = null
       THEN /\ UNCHANGED storeVars
            /\ lastCall' = Call("recordResult", <<correct>>, FALSE, FALSE)
       ELSE LET next == currentCardIndex + 1
                draws == direction = RANDOM
            IN  /\ results' = Append(results,
                                     [cardId |-> currentCard.id, correct |-> correct])
                /\ currentCardIndex' = next
                /\ currentCardDirection' =
                      IF draws THEN randomizeCurrentDirection(r)
                      ELSE currentCardDirection
                /\ UNCHANGED <<cards, direction>>
                /\ lastCall' = Call("recordResult", <<correct>>, draws, FALSE)

\* recordResult that draws a direction for the next card under every policy
recordResult_drawsUnderFixed(correct, r) ==
    /\ calls' = Saturate(calls)
    /\ IF currentCard = null
       THEN /\ UNCHANGED storeVars
            /\ lastCall' = Call("recordResult", <<correct>>, FALSE, FALSE)
       ELSE LET next == currentCardIndex + 1
                draws == next < Len(cards)
            IN  /\ results' = Append(results,
                                     [cardId |-> currentCard.id, correct |-> correct])
                /\ currentCardIndex' = next
                /\ currentCardDirection' =
                      IF draws THEN randomizeCurrentDirection(r)
                      ELSE currentCardDirection
                /\ UNCHANGED <<cards, direction>>
                /\ lastCall' = Call("recordResult", <<correct>>, draws, FALSE)

\* recordResult(correct); r is the Math.random() draw
recordResult(correct, r) ==
    /\ calls' = Saturate(calls)
    /\ IF currentCard = null
       THEN /\ UNCHANGED storeVars
            /\ lastCall' = Call("recordResult", <<correct>>, FALSE, FALSE)
       ELSE LET next == currentCardIndex + 1
                draws == direction = RANDOM /\ next < Len(cards)
            IN  /\ results' = Append(results,
                                     [cardId |-> currentCard.id, correct |-> correct])
                /\ currentCardIndex' = next
                /\ currentCardDirection' =
                      IF draws THEN randomizeCurrentDirection(r)
                      ELSE currentCardDirection
                /\ UNCHANGED <<cards, direction>>
                /\ lastCall' = Call("recordResult", <<correct>>, draws, FALSE)

\* reset as the store had it before currentCardDirection was added to it
reset_keepsCurrentDirection ==
    /\ cards' = <<>>
    /\ direction' = FORWARD
    /\ currentCardIndex' = 0
    /\ results' = <<>>
    /\ currentCardDirection' = currentCardDirection
    /\ lastCall' = Call("reset", <<>>, FALSE, FALSE)
    /\ calls' = 0

\* reset()
reset ==
    /\ cards' = <<>>
    /\ direction' = FORWARD
    /\ currentCardIndex' = 0
    /\ results' = <<>>
    /\ currentCardDirection' = FORWARD
    /\ lastCall' = Call("reset", <<>>, FALSE, FALSE)
    /\ calls' = 0

\* ----------------------------------------------------------- specification

\* The store as defineStore's setup function leaves it.
Init ==
    /\ cards = <<>>
    /\ direction = FORWARD
    /\ currentCardIndex = 0
    /\ results = <<>>
    /\ currentCardDirection = FORWARD
    /\ lastCall = [op |-> "none", arg |-> <<>>, from |-> "Idle", fromIndex |-> 0,
                   drew |-> FALSE, threw |-> FALSE]
    /\ calls = 0
    /\ ViewIdle
    /\ CalcIdle
    /\ ServerIdle
    /\ DeckIdle
    /\ AuthIdle

StartSession ==
    \E sessionCards \in CardLists, sessionDirection \in CardDirection :
        \E r \in DrawsFor(sessionDirection = RANDOM) :
            startSession(sessionCards, sessionDirection, r)

RecordResult ==
    \E correct \in BOOLEAN :
        \E r \in DrawsFor(direction = RANDOM) : recordResult(correct, r)

Reset == reset

\* What the store's calls leave alone.
outsideStore == <<viewVars, calcVars, serverVars, deckVars, authVars>>

Next ==
    \/ StartSession /\ UNCHANGED outsideStore
    \/ RecordResult /\ UNCHANGED outsideStore
    \/ Reset /\ UNCHANGED outsideStore

Spec == Init /\ [][Next]_vars

\* ------------------------------------------------- views/PracticeSession.vue

\* answerCard clicks taken in one visit of the practice view.
MaxClicks == 2

\* How a fetch of recordAttemptToDatabase can end: "ok" is a 2xx response;
\* "failed" is a response with an error status (fetch resolves, nothing reads
\* it) or a rejection (the catch logs it): the view does the same for both.
DispatchOutcomes == {"ok", "failed"}

\* The lists DeckList.vue hands to startSession before it opens the view: cards
\* fetched from one deck (each id once, in any order), never none.
SessionLists ==
    {l \in CardLists : l # <<>> /\ \A i, j \in 1..Len(l) : l[i] = l[j] => i = j}

\* The practice view as DeckList.vue opens it: startSession was just called on
\* the fresh store, then router.push({ name: 'PracticeSession' }).
ViewInit ==
    \E sessionCards \in SessionLists, sessionDirection \in CardDirection :
        \E r \in DrawsFor(sessionDirection = RANDOM) :
            /\ cards = sessionCards
            /\ direction = sessionDirection
            /\ currentCardIndex = 0
            /\ results = <<>>
            /\ currentCardDirection =
                  IF sessionDirection = RANDOM THEN randomizeCurrentDirection(r)
                  ELSE sessionDirection
            /\ lastCall = [op |-> "startSession",
                           arg |-> <<sessionCards, sessionDirection>>,
                           from |-> "Idle", fromIndex |-> 0,
                           drew |-> sessionDirection = RANDOM, threw |-> FALSE]
            /\ calls = 0
            /\ isFlipped = FALSE
            /\ isTransitioning = FALSE
            /\ timers = [record |-> <<>>, fade |-> 0]
            /\ dispatches = <<>>
            /\ route = "PracticeSession"
            /\ CalcIdle
            /\ ServerIdle
            /\ DeckIdle
            /\ AuthIdle

\* What the view's own handlers leave alone.
outsideView == <<calcVars, serverVars, deckVars, authVars>>
storeAndTrace == <<storeVars, lastCall, calls>>

\* The card is rendered (v-else of !sessionStore.currentCard) on the view's route.
CardShown == route = "PracticeSession" /\ currentCard # null

\* flipCard(): a click on the card
flipCard ==
    /\ CardShown
    /\ isFlipped' = ~isFlipped
    /\ UNCHANGED <<storeAndTrace, isTransitioning, timers, dispatches, route,
                   outsideView>>

\* answerCard(correct): a click on "Got It" / "Missed It", rendered v-if isFlipped.
\* recordAttemptToDatabase is started and not awaited; the 300 ms timer is set.
answerCard(correct) ==
    /\ CardShown
    /\ isFlipped
    /\ Len(dispatches) < MaxClicks
    /\ IF currentCard = null
       THEN UNCHANGED <<isTransitioning, isFlipped, dispatches, timers>>
       ELSE /\ isTransitioning' = TRUE
            /\ isFlipped' = FALSE
            /\ dispatches' = Append(dispatches,
                                    [cardId |-> currentCard.id, correct |-> correct,
                                     status |-> "pending"])
            /\ timers' = [timers EXCEPT !.record = Append(@, correct)]
    /\ UNCHANGED <<storeAndTrace, route, outsideView>>

\* The 300 ms callback that records only once its own POST has succeeded
RecordTimerFires_afterSuccess ==
    /\ timers.record # <<>>
    /\ LET k == Len(dispatches) - Len(timers.record) + 1
       IN  IF dispatches[k].status = "ok"
           THEN /\ \E r \in DrawsFor(direction = RANDOM) :
                       recordResult(Head(timers.record), r)
                /\ IF isSessionComplete'
                   THEN /\ route' = "SessionResults"
                        /\ timers' = [timers EXCEPT !.record = Tail(@)]
                   ELSE /\ route' = route
                        /\ timers' = [record |-> Tail(timers.record),
                                      fade |-> timers.fade + 1]
           ELSE /\ timers' = [timers EXCEPT !.record = Tail(@)]
                /\ UNCHANGED <<storeAndTrace, route>>
    /\ UNCHANGED <<isFlipped, isTransitioning, dispatches, outsideView>>

\* The 300 ms callback of answerCard: recordResult, then either router.push to
\* the results or the 50 ms timer that fades the content back in. Callbacks of
\* equal delay run in the order they were set.
RecordTimerFires ==
    /\ timers.record # <<>>
    /\ \E r \in DrawsFor(direction = RANDOM) : recordResult(Head(timers.record), r)
    /\ IF isSessionComplete'
       THEN /\ route' = "SessionResults"
            /\ timers' = [timers EXCEPT !.record = Tail(@)]
       ELSE /\ route' = route
            /\ timers' = [record |-> Tail(timers.record), fade |-> timers.fade + 1]
    /\ UNCHANGED <<isFlipped, isTransitioning, dispatches, outsideView>>

\* The 50 ms callback: isTransitioning.value = false
FadeTimerFires ==
    /\ timers.fade > 0
    /\ isTransitioning' = FALSE
    /\ timers' = [timers EXCEPT !.fade = @ - 1]
    /\ UNCHANGED <<storeAndTrace, isFlipped, dispatches, route, outsideView>>

\* recordAttemptToDatabase's fetch settles: nothing is read from the response,
\* and a rejection is caught and logged.
DispatchSettles(i, outcome) ==
    /\ dispatches[i].status = "pending"
    /\ dispatches' = [dispatches EXCEPT ![i].status = outcome]
    /\ UNCHANGED <<storeAndTrace, isFlipped, isTransitioning, timers, route,
                   outsideView>>

AnswerCard == \E correct \in BOOLEAN : answerCard(correct)

DispatchSettlesAny ==
    \E i \in 1..Len(dispatches), outcome \in DispatchOutcomes :
        DispatchSettles(i, outcome)

ViewNext ==
    \/ flipCard
    \/ AnswerCard
    \/ RecordTimerFires
    \/ FadeTimerFires
    \/ DispatchSettlesAny

ViewSpec == ViewInit /\ [][ViewNext]_vars

\* --------------------------------------------- server/src/spacedRepetition.ts

\* Ease factors are kept in tenths (2.5 is 25): the server only ever stores
\* 2.5 less a multiple of 0.2, floored at 1.3, and the real column returns
\* each of them as the same decimal.
MinEaseTenths == 13
DefaultEaseTenths == 25
EaseStepTenths == 2

\* The intervals of the first and the second correct review, in days.
FirstInterval == 1
SecondInterval == 6

\* Largest arguments given to one evaluation of calculateNextReview.
MaxInterval == 26
MaxEaseTenths == 25
MaxRepetitions == 3

\* Last day of the clock.
MaxTime == 2

Max(a, b) == IF a >= b THEN a ELSE b

\* The pairs (interval, ease in tenths), interval <= 100 and ease <= 3.0, whose
\* exact product ends in .5 while their IEEE-754 double product lies below it
\* (25 * 2.3 is 57.49999999999999).
DoubleBelowHalf == {<<25, 23>>, <<45, 23>>, <<55, 23>>, <<85, 23>>, <<95, 23>>}

\* Math.round(currentInterval * currentEase): the double product rounded to the
\* nearest integer, a half rounded up.
MathRound(interval, easeTenths) ==
    LET halfUp == (2 * interval * easeTenths + 10) \div 20
    IN  IF <<interval, easeTenths>> \in DoubleBelowHalf THEN halfUp - 1 ELSE halfUp

\* calculateNextReview with Math.floor in place of Math.round
calculateNextReview_floors(correct, currentInterval, currentEase, currentRepetitions, today) ==
    LET newRepetitions == IF correct THEN currentRepetitions + 1 ELSE 0
        newInterval ==
            IF correct
            THEN IF newRepetitions = 1 THEN FirstInterval
                 ELSE IF newRepetitions = 2 THEN SecondInterval
                 ELSE (currentInterval * currentEase) \div 10
            ELSE 1
        newEase ==
            IF correct THEN currentEase
            ELSE Max(MinEaseTenths, currentEase - EaseStepTenths)
    IN  [intervalDays |-> newInterval,
         easeFactor |-> newEase,
         repetitions |-> newRepetitions,
         nextReviewDate |-> today + newInterval]

\* calculateNextReview without the branch for the second repetition
calculateNextReview_noSecondStep(correct, currentInterval, currentEase, currentRepetitions, today) ==
    LET newRepetitions == IF correct THEN currentRepetitions + 1 ELSE 0
        newInterval ==
            IF correct
            THEN IF newRepetitions = 1 THEN FirstInterval
                 ELSE MathRound(currentInterval, currentEase)
            ELSE 1
        newEase ==
            IF correct THEN currentEase
            ELSE Max(MinEaseTenths, currentEase - EaseStepTenths)
    IN  [intervalDays |-> newInterval,
         easeFactor |-> newEase,
         repetitions |-> newRepetitions,
         nextReviewDate |-> today + newInterval]

\* calculateNextReview that keeps the interval on an incorrect outcome
calculateNextReview_keepsInterval(correct, currentInterval, currentEase, currentRepetitions, today) ==
    LET newRepetitions == IF correct THEN currentRepetitions + 1 ELSE 0
        newInterval ==
            IF correct
            THEN IF newRepetitions = 1 THEN FirstInterval
                 ELSE IF newRepetitions = 2 THEN SecondInterval
                 ELSE MathRound(currentInterval, currentEase)
            ELSE currentInterval
        newEase ==
            IF correct THEN currentEase
            ELSE Max(MinEaseTenths, currentEase - EaseStepTenths)
    IN  [intervalDays |-> newInterval,
         easeFactor |-> newEase,
         repetitions |-> newRepetitions,
         nextReviewDate |-> today + newInterval]

\* calculateNextReview without the floor of 1.3 on the ease factor
calculateNextReview_noFloor(correct, currentInterval, currentEase, currentRepetitions, today) ==
    LET newRepetitions == IF correct THEN currentRepetitions + 1 ELSE 0
        newInterval ==
            IF correct
            THEN IF newRepetitions = 1 THEN FirstInterval
                 ELSE IF newRepetitions = 2 THEN SecondInterval
                 ELSE MathRound(currentInterval, currentEase)
            ELSE 1
        newEase ==
            IF correct THEN currentEase ELSE currentEase - EaseStepTenths
    IN  [intervalDays |-> newInterval,
         easeFactor |-> newEase,
         repetitions |-> newRepetitions,
         nextReviewDate |-> today + newInterval]

\* calculateNextReview(correct, currentInterval, currentEase,
\* currentRepetitions); today is the day `new Date()` falls on.
calculateNextReview(correct, currentInterval, currentEase, currentRepetitions, today) ==
    LET newRepetitions == IF correct THEN currentRepetitions + 1 ELSE 0
        newInterval ==
            IF correct
            THEN IF newRepetitions = 1 THEN FirstInterval
                 ELSE IF newRepetitions = 2 THEN SecondInterval
                 ELSE MathRound(currentInterval, currentEase)
            ELSE 1
        newEase ==
            IF correct THEN currentEase
            ELSE Max(MinEaseTenths, currentEase - EaseStepTenths)
    IN  [intervalDays |-> newInterval,
         easeFactor |-> newEase,
         repetitions |-> newRepetitions,
         nextReviewDate |-> today + newInterval]

\* isCardDue(nextReviewDate): nextReviewDate <= new Date()
isCardDue(nextReviewDate, today) == nextReviewDate <= today

\* initializeSchedule()
initializeSchedule(today) ==
    [intervalDays |-> 1,
     easeFactor |-> DefaultEaseTenths,
     repetitions |-> 0,
     nextReviewDate |-> today]

\* Every argument list within the bounds.
CalcInputs ==
    [correct : BOOLEAN,
     currentInterval : 1..MaxInterval,
     currentEase : MinEaseTenths..MaxEaseTenths,
     currentRepetitions : 0..MaxRepetitions,
     today : 0..MaxTime]

outsideCalc == <<storeVars, lastCall, calls, viewVars, serverVars, deckVars, authVars>>

\* The session store as constructed, no session started.
StoreIdle ==
    /\ cards = <<>>
    /\ direction = FORWARD
    /\ currentCardIndex = 0
    /\ results = <<>>
    /\ currentCardDirection = FORWARD
    /\ lastCall = [op |-> "none", arg |-> <<>>, from |-> "Idle", fromIndex |-> 0,
                   drew |-> FALSE, threw |-> FALSE]
    /\ calls = 0

\* One call of calculateNextReview about to be made, with any arguments.
CalcInit ==
    /\ calcIn \in CalcInputs
    /\ calcOut = NONE
    /\ StoreIdle
    /\ ViewIdle
    /\ ServerIdle
    /\ DeckIdle
    /\ AuthIdle

\* The call returns.
Calculate ==
    /\ calcOut = NONE
    /\ calcOut' = calculateNextReview(calcIn.correct, calcIn.currentInterval,
                                      calcIn.currentEase, calcIn.currentRepetitions,
                                      calcIn.today)
    /\ UNCHANGED <<calcIn, outsideCalc>>

CalcNext == Calculate

CalcSpec == CalcInit /\ [][CalcNext]_vars

\* ------------------------------------------------------ server/src/index.ts

\* Most attempts posted in one run, to any card.
MaxAttempts == 2

\* Most attempts posted in one drill of a single card.
MaxDrill == 8

\* The cards table: three cards of deck 1 (texts and tags are not modelled;
\* no handler below branches on them).
CardsTable ==
    <<[id |-> 1, deckId |-> 1], [id |-> 2, deckId |-> 1], [id |-> 3, deckId |-> 1]>>

CardIds == {CardsTable[i].id : i \in DOMAIN CardsTable}

\* JSON values of a request body, by their typeof.
JsonNumber(n) == [type |-> "number", value |-> n]
JsonBoolean(b) == [type |-> "boolean", value |-> b]
JsonString(v) == [type |-> "string", value |-> v]
typeof(v) == v.type

\* Request bodies: the cards' ids, an id that names no card, the id "1" sent
\* as a string; true, false, and "true" sent as a string.
AttemptBodies ==
    [cardId : {JsonNumber(n) : n \in CardIds \cup {99}} \cup {JsonString(1)},
     correct : {JsonBoolean(b) : b \in BOOLEAN} \cup {JsonString(TRUE)}]

\* parseInt(c.req.param('deckId')): a number or NaN.
ParsedDeckIds ==
    {[isNaN |-> FALSE, value |-> 1], [isNaN |-> FALSE, value |-> 2],
     [isNaN |-> TRUE, value |-> 0]}

\* insertAttempt that keeps one row per card, replacing the card's last one
insertAttempt_replaces(attempts, cardId, correct) ==
    IF cardId \notin CardIds
    THEN [threw |-> TRUE, rows |-> attempts]
    ELSE [threw |-> FALSE,
          rows |-> Append(SelectSeq(attempts, LAMBDA a : a.cardId # cardId),
                          [cardId |-> cardId, correct |-> correct])]

\* insertAttempt on a table without the foreign key to cards
insertAttempt_noForeignKey(attempts, cardId, correct) ==
    [threw |-> FALSE,
     rows |-> Append(attempts, [cardId |-> cardId, correct |-> correct])]

\* db.insert(cardAttempts).values({cardId, correct}): card_id references
\* cards.id, so a cardId that names no card throws. createdAt is read by no
\* handler and is left out.
insertAttempt(attempts, cardId, correct) ==
    IF cardId \notin CardIds
    THEN [threw |-> TRUE, rows |-> attempts]
    ELSE [threw |-> FALSE,
          rows |-> Append(attempts, [cardId |-> cardId, correct |-> correct])]

\* db.select().from(cardSchedule).where(eq(cardSchedule.cardId, cardId)).limit(1)
selectSchedule(schedule, cardId) ==
    LET found == SelectSeq(schedule, LAMBDA row : row.cardId = cardId)
    IN  IF Len(found) > 0 THEN <<found[1]>> ELSE <<>>

\* value || fallback, for numbers
OrDefault(value, fallback) == IF value = 0 THEN fallback ELSE value

\* nextSchedule that never reads the stored record
nextSchedule_ignoresStored(existingSchedule, correct, today) ==
    calculateNextReview(correct, 1, DefaultEaseTenths, 0, today)

\* existingSchedule[0] || {1, 2.5, 0}, then calculateNextReview on it
nextSchedule(existingSchedule, correct, today) ==
    LET currentSchedule ==
            IF Len(existingSchedule) > 0 THEN existingSchedule[1]
            ELSE [intervalDays |-> 1, easeFactor |-> DefaultEaseTenths,
                  repetitions |-> 0]
    IN  calculateNextReview(correct,
                            OrDefault(currentSchedule.intervalDays, 1),
                            OrDefault(currentSchedule.easeFactor, DefaultEaseTenths),
                            OrDefault(currentSchedule.repetitions, 0),
                            today)

\* db.update(cardSchedule).set({...newSchedule, updatedAt}).where(cardId)
updateSchedule(schedule, cardId, newSchedule, today) ==
    [i \in DOMAIN schedule |->
        IF schedule[i].cardId = cardId
        THEN [cardId |-> cardId,
              nextReviewDate |-> newSchedule.nextReviewDate,
              intervalDays |-> newSchedule.intervalDays,
              easeFactor |-> newSchedule.easeFactor,
              repetitions |-> newSchedule.repetitions,
              updatedAt |-> today]
        ELSE schedule[i]]

\* insertSchedule on a table without the unique constraint on card_id
insertSchedule_noUnique(schedule, cardId, newSchedule, today) ==
    [threw |-> FALSE,
     rows |-> Append(schedule,
                     [cardId |-> cardId,
                      nextReviewDate |-> newSchedule.nextReviewDate,
                      intervalDays |-> newSchedule.intervalDays,
                      easeFactor |-> newSchedule.easeFactor,
                      repetitions |-> newSchedule.repetitions,
                      updatedAt |-> today])]

\* db.insert(cardSchedule).values({cardId, ...newSchedule}): card_id is
\* unique and references cards.id, so a second row for the card, or a row for
\* no card, throws; updatedAt defaults to now.
insertSchedule(schedule, cardId, newSchedule, today) ==
    IF cardId \notin CardIds \/ \E i \in DOMAIN schedule : schedule[i].cardId = cardId
    THEN [threw |-> TRUE, rows |-> schedule]
    ELSE [threw |-> FALSE,
          rows |-> Append(schedule,
                          [cardId |-> cardId,
                           nextReviewDate |-> newSchedule.nextReviewDate,
                           intervalDays |-> newSchedule.intervalDays,
                           easeFactor |-> newSchedule.easeFactor,
                           repetitions |-> newSchedule.repetitions,
                           updatedAt |-> today])]

\* writeSchedule that computes the schedule again from the row stored at the
\* time of the write
writeSchedule_rereads(schedule, cardId, correct, existingSchedule, newSchedule, today) ==
    LET stored == selectSchedule(schedule, cardId)
    IN  IF Len(stored) > 0
        THEN [threw |-> FALSE,
              rows |-> updateSchedule(schedule, cardId,
                                      nextSchedule(stored, correct, today), today)]
        ELSE insertSchedule(schedule, cardId, newSchedule, today)

\* if (existingSchedule.length > 0) update, else insert: the branch is taken on
\* the rows read earlier, and newSchedule was computed from them.
writeSchedule(schedule, cardId, correct, existingSchedule, newSchedule, today) ==
    IF Len(existingSchedule) > 0
    THEN [threw |-> FALSE,
          rows |-> updateSchedule(schedule, cardId, newSchedule, today)]
    ELSE insertSchedule(schedule, cardId, newSchedule, today)

\* c.json({success: true, schedule: newSchedule}, 201), or an error response
AttemptResponse(status, newSchedule) ==
    [op |-> "postAttempt", status |-> status, schedule |-> newSchedule]

\* POST /api/attempts run from request to response with no other request in
\* between: the two tables after it and the response.
postAttempt(body, attempts, schedule, today) ==
    IF typeof(body.cardId) # "number" \/ typeof(body.correct) # "boolean"
    THEN [attempts |-> attempts, schedule |-> schedule,
          response |-> AttemptResponse(400, <<>>)]
    ELSE
        LET cardId == body.cardId.value
            correct == body.correct.value
            logged == insertAttempt(attempts, cardId, correct)
            existingSchedule == selectSchedule(schedule, cardId)
            newSchedule == nextSchedule(existingSchedule, correct, today)
            written == writeSchedule(schedule, cardId, correct, existingSchedule,
                                     newSchedule, today)
        IN  IF logged.threw
            THEN [attempts |-> attempts, schedule |-> schedule,
                  response |-> AttemptResponse(500, <<>>)]
            ELSE IF written.threw
            THEN [attempts |-> logged.rows, schedule |-> schedule,
                  response |-> AttemptResponse(500, <<>>)]
            ELSE [attempts |-> logged.rows, schedule |-> written.rows,
                  response |-> AttemptResponse(201, <<newSchedule>>)]

\* The orders in which a query without ORDER BY may return the cards.
RowOrders ==
    {order \in [DOMAIN CardsTable -> DOMAIN CardsTable] :
        \A i, j \in DOMAIN CardsTable : order[i] = order[j] => i = j}

\* The row orders of one request: a NaN deck id is answered before any query.
OrdersFor(deckId) ==
    IF deckId.isNaN THEN {[i \in DOMAIN CardsTable |-> i]} ELSE RowOrders

\* from(cards).leftJoin(cardSchedule, cards.id = cardSchedule.cardId): one row
\* per card and matching schedule row, one row without schedule for a card
\* that has none.
RECURSIVE leftJoin(_, _)
leftJoin(cardRows, schedule) ==
    IF cardRows = <<>> THEN <<>>
    ELSE
        LET card == Head(cardRows)
            matches == SelectSeq(schedule, LAMBDA row : row.cardId = card.id)
            joined ==
                IF matches = <<>>
                THEN <<[id |-> card.id, deckId |-> card.deckId, schedule |-> <<>>]>>
                ELSE [i \in DOMAIN matches |->
                        [id |-> card.id, deckId |-> card.deckId,
                         schedule |-> <<matches[i]>>]]
        IN  joined \o leftJoin(Tail(cardRows), schedule)

\* the due filter without the test for a missing schedule
dueFilter_dropsUnscheduled(deckCards, today) ==
    SelectSeq(deckCards,
              LAMBDA card : /\ card.schedule # <<>>
                            /\ card.schedule[1].nextReviewDate <= today)

\* the due filter with a strict comparison
dueFilter_strict(deckCards, today) ==
    SelectSeq(deckCards,
              LAMBDA card : \/ card.schedule = <<>>
                            \/ card.schedule[1].nextReviewDate < today)

\* deckCards.filter(card => !card.nextReviewDate || card.nextReviewDate <= now)
dueFilter(deckCards, today) ==
    SelectSeq(deckCards,
              LAMBDA card : \/ card.schedule = <<>>
                            \/ card.schedule[1].nextReviewDate <= today)

\* dueCards.map(card => ({id, frontText, backText, deckId, tags}))
CardResponse(card) == [id |-> card.id, deckId |-> card.deckId]

\* GET /api/decks/:deckId/due-cards: the response, with the rows the query
\* returned.
getDueCards(deckId, order, schedule, today) ==
    IF deckId.isNaN
    THEN [op |-> "dueCards", status |-> 400, deckId |-> deckId,
          deckCards |-> <<>>, body |-> <<>>]
    ELSE
        LET ordered == [i \in DOMAIN CardsTable |-> CardsTable[order[i]]]
            ofDeck == SelectSeq(ordered, LAMBDA card : card.deckId = deckId.value)
            deckCards == leftJoin(ofDeck, schedule)
            dueCards == dueFilter(deckCards, today)
        IN  [op |-> "dueCards", status |-> 200, deckId |-> deckId,
             deckCards |-> deckCards,
             body |-> [i \in DOMAIN dueCards |-> CardResponse(dueCards[i])]]

\* Most attempts counted by one evaluation of the accuracy expression.
MaxTotalAttempts == 40

\* A column that is NULL, as the driver returns it.
JsonNull == [type |-> "null", value |-> 0]

\* count(*) and sum(...) are int8: node-postgres returns them as decimal
\* strings, and sql<number> converts nothing.
Int8Result(n) == JsonString(n)

\* Number(v), the conversion >, / and * apply to their operands
ToNumber(v) == v.value

\* result || 0: null and 0 are falsy; a non-empty string, "0" too, is truthy.
OrZero(v) ==
    IF typeof(v) = "null" \/ (typeof(v) = "number" /\ v.value = 0)
    THEN JsonNumber(0)
    ELSE v

\* The pairs (correct, total), total < 80, for which 100 * correct / total ends
\* in .5 while the double (correct / total) * 100 lies below it
\* ((23 / 40) * 100 is 57.49999999999999).
QuotientBelowHalf == {<<23, 40>>}

\* Math.round((correctAttempts / totalAttempts) * 100)
MathRoundPercent(correctAttempts, totalAttempts) ==
    LET halfUp == (200 * correctAttempts + totalAttempts) \div (2 * totalAttempts)
    IN  IF <<correctAttempts, totalAttempts>> \in QuotientBelowHalf
        THEN halfUp - 1
        ELSE halfUp

\* totalAttempts > 0 ? Math.round((correctAttempts / totalAttempts) * 100) : 0
accuracyOf(correctAttempts, totalAttempts) ==
    IF ToNumber(totalAttempts) > 0
    THEN MathRoundPercent(ToNumber(correctAttempts), ToNumber(totalAttempts))
    ELSE 0

\* the due count of the stats query over an inner join
dueWhere_innerJoin(deckCards, today) ==
    SelectSeq(deckCards,
              LAMBDA card : /\ card.schedule # <<>>
                            /\ card.schedule[1].nextReviewDate <= today)

\* where (next_review_date IS NULL OR next_review_date <= now)
dueWhere(deckCards, today) ==
    SelectSeq(deckCards,
              LAMBDA card : \/ card.schedule = <<>>
                            \/ card.schedule[1].nextReviewDate <= today)

\* from(cardAttempts).innerJoin(cards).where(cards.deckId = deckId)
attemptsOfDeck(attempts, deckId) ==
    SelectSeq(attempts,
              LAMBDA a : \E i \in DOMAIN CardsTable :
                            /\ CardsTable[i].id = a.cardId
                            /\ CardsTable[i].deckId = deckId)

\* GET /api/decks/:deckId/stats
getDeckStats(deckId, attempts, schedule, today) ==
    IF deckId.isNaN
    THEN [op |-> "stats", status |-> 400, deckId |-> deckId,
          totalCards |-> JsonNull, dueCards |-> JsonNull,
          totalAttempts |-> JsonNull, correctAttempts |-> JsonNull,
          accuracy |-> 0]
    ELSE
        LET ofDeck == SelectSeq(CardsTable, LAMBDA card : card.deckId = deckId.value)
            totalCards == OrZero(Int8Result(Len(ofDeck)))
            dueCards ==
                OrZero(Int8Result(Len(dueWhere(leftJoin(ofDeck, schedule), today))))
            joined == attemptsOfDeck(attempts, deckId.value)
            totalAttempts == OrZero(Int8Result(Len(joined)))
            correctAttempts ==
                OrZero(IF joined = <<>> THEN JsonNull
                       ELSE Int8Result(Len(SelectSeq(joined, LAMBDA a : a.correct))))
        IN  [op |-> "stats", status |-> 200, deckId |-> deckId,
             totalCards |-> totalCards, dueCards |-> dueCards,
             totalAttempts |-> totalAttempts, correctAttempts |-> correctAttempts,
             accuracy |-> accuracyOf(correctAttempts, totalAttempts)]

outsideServer == <<storeVars, lastCall, calls, viewVars, calcVars, deckVars, authVars>>

\* The server started on empty attempt and schedule tables.
SeqInit ==
    /\ StoreIdle
    /\ ViewIdle
    /\ CalcIdle
    /\ ServerIdle
    /\ DeckIdle
    /\ AuthIdle

\* One POST /api/attempts, handled before the next request starts.
PostAttempt ==
    /\ Len(cardAttempts) < MaxAttempts
    /\ \E body \in AttemptBodies :
          LET after == postAttempt(body, cardAttempts, cardSchedule, now)
          IN  /\ cardAttempts' = after.attempts
              /\ cardSchedule' = after.schedule
              /\ lastHttp' = after.response
    /\ UNCHANGED <<now, reqs, outsideServer>>

\* One GET /api/decks/:deckId/due-cards.
GetDueCards ==
    /\ \E deckId \in ParsedDeckIds :
          \E order \in OrdersFor(deckId) :
              lastHttp' = getDueCards(deckId, order, cardSchedule, now)
    /\ UNCHANGED <<now, cardAttempts, cardSchedule, reqs, outsideServer>>

\* One GET /api/decks/:deckId/stats.
GetStats ==
    /\ \E deckId \in ParsedDeckIds :
          lastHttp' = getDeckStats(deckId, cardAttempts, cardSchedule, now)
    /\ UNCHANGED <<now, cardAttempts, cardSchedule, reqs, outsideServer>>

\* A day passes. lastHttp is the response sent by the last step, if any.
Tick ==
    /\ now < MaxTime
    /\ now' = now + 1
    /\ lastHttp' = NONE
    /\ UNCHANGED <<cardAttempts, cardSchedule, reqs, outsideServer>>

SeqNext ==
    \/ PostAttempt
    \/ GetDueCards
    \/ GetStats
    \/ Tick

SeqSpec == SeqInit /\ [][SeqNext]_vars

\* The attempts row of the stats query for any log of up to MaxTotalAttempts
\* attempts, about to be turned into an accuracy.
AccuracyInputs ==
    {[op |-> "accuracy", totalAttempts |-> total, correctAttempts |-> correct] :
        total \in 0..MaxTotalAttempts, correct \in 0..MaxTotalAttempts}

AccuracyInit ==
    /\ calcIn \in {in \in AccuracyInputs : in.correctAttempts <= in.totalAttempts}
    /\ calcOut = NONE
    /\ StoreIdle
    /\ ViewIdle
    /\ ServerIdle
    /\ DeckIdle
    /\ AuthIdle

\* The stats handler computes accuracy from the counts the query returned.
ComputeAccuracy ==
    /\ calcOut = NONE
    /\ LET totalAttempts == OrZero(Int8Result(calcIn.totalAttempts))
           correctAttempts ==
               OrZero(IF calcIn.totalAttempts = 0 THEN JsonNull
                      ELSE Int8Result(calcIn.correctAttempts))
       IN  calcOut' = [op |-> "accuracy",
                       accuracy |-> accuracyOf(correctAttempts, totalAttempts)]
    /\ UNCHANGED <<calcIn, outsideCalc>>

AccuracyNext == ComputeAccuracy

AccuracySpec == AccuracyInit /\ [][AccuracyNext]_vars

\* A drill: attempts on card 1 only, one after the other, on one day.
DrillAttempt ==
    /\ Len(cardAttempts) < MaxDrill
    /\ \E correct \in BOOLEAN :
          LET body == [cardId |-> JsonNumber(1), correct |-> JsonBoolean(correct)]
              after == postAttempt(body, cardAttempts, cardSchedule, now)
          IN  /\ cardAttempts' = after.attempts
              /\ cardSchedule' = after.schedule
              /\ lastHttp' = after.response
    /\ UNCHANGED <<now, reqs, outsideServer>>

DrillNext == DrillAttempt

DrillSpec == SeqInit /\ [][DrillNext]_vars

\* -------------------------------------- POST /api/attempts, request by request

\* Most requests in one run of overlapping requests.
MaxRequests == 3

\* The bodies of the overlapping requests: every body that names card 1, the
\* malformed one too, and a correct outcome for card 2.
ConcBodies ==
    {body \in AttemptBodies : body.cardId = JsonNumber(1)}
        \cup {[cardId |-> JsonNumber(2), correct |-> JsonBoolean(TRUE)]}

\* A request between two awaits: pc names the statement it will run next.
Request(body, pc, existingSchedule, newSchedule, status) ==
    [cardId |-> body.cardId.value,
     correct |-> body.correct.value,
     pc |-> pc,
     existingSchedule |-> existingSchedule,
     newSchedule |-> newSchedule,
     status |-> status]

\* A request arrives, while fewer than most are in the run; its body is read
\* and validated.
ArriveUpTo(most) ==
    /\ Len(reqs) < most
    /\ \E body \in ConcBodies :
          IF typeof(body.cardId) # "number" \/ typeof(body.correct) # "boolean"
          THEN /\ reqs' = Append(reqs, Request(body, "done", <<>>, <<>>, 400))
               /\ lastHttp' = AttemptResponse(400, <<>>)
          ELSE /\ reqs' = Append(reqs, Request(body, "insertAttempt", <<>>, <<>>, 0))
               /\ lastHttp' = NONE
    /\ UNCHANGED <<now, cardAttempts, cardSchedule, outsideServer>>

Arrive == ArriveUpTo(MaxRequests)

\* await db.insert(cardAttempts)
LogAttempt(i) ==
    /\ reqs[i].pc = "insertAttempt"
    /\ LET logged == insertAttempt(cardAttempts, reqs[i].cardId, reqs[i].correct)
       IN  IF logged.threw
           THEN /\ reqs' = [reqs EXCEPT ![i].pc = "done", ![i].status = 500]
                /\ lastHttp' = AttemptResponse(500, <<>>)
                /\ UNCHANGED cardAttempts
           ELSE /\ reqs' = [reqs EXCEPT ![i].pc = "select"]
                /\ lastHttp' = NONE
                /\ cardAttempts' = logged.rows
    /\ UNCHANGED <<now, cardSchedule, outsideServer>>

\* await db.select().from(cardSchedule), then calculateNextReview
ReadSchedule(i) ==
    /\ reqs[i].pc = "select"
    /\ LET existingSchedule == selectSchedule(cardSchedule, reqs[i].cardId)
           newSchedule == nextSchedule(existingSchedule, reqs[i].correct, now)
       IN  reqs' = [reqs EXCEPT ![i].pc = "write",
                                ![i].existingSchedule = existingSchedule,
                                ![i].newSchedule = <<newSchedule>>]
    /\ lastHttp' = NONE
    /\ UNCHANGED <<now, cardAttempts, cardSchedule, outsideServer>>

\* await db.update(cardSchedule) or db.insert(cardSchedule), then the response
WriteSchedule(i) ==
    /\ reqs[i].pc = "write"
    /\ LET written == writeSchedule(cardSchedule, reqs[i].cardId, reqs[i].correct,
                                    reqs[i].existingSchedule,
                                    reqs[i].newSchedule[1], now)
       IN  IF written.threw
           THEN /\ reqs' = [reqs EXCEPT ![i].pc = "done", ![i].status = 500]
                /\ lastHttp' = AttemptResponse(500, <<>>)
                /\ UNCHANGED cardSchedule
           ELSE /\ reqs' = [reqs EXCEPT ![i].pc = "done", ![i].status = 201]
                /\ lastHttp' = AttemptResponse(201, reqs[i].newSchedule)
                /\ cardSchedule' = written.rows
    /\ UNCHANGED <<now, cardAttempts, outsideServer>>

\* Any request in flight takes its next step.
LogAttemptAny == \E i \in DOMAIN reqs : LogAttempt(i)
ReadScheduleAny == \E i \in DOMAIN reqs : ReadSchedule(i)
WriteScheduleAny == \E i \in DOMAIN reqs : WriteSchedule(i)

ConcNext ==
    \/ Arrive
    \/ LogAttemptAny
    \/ ReadScheduleAny
    \/ WriteScheduleAny

ConcSpec == SeqInit /\ [][ConcNext]_vars

\* Most requests in one run of overlapping requests and queries.
MaxLogRequests == 2

ArriveFew == ArriveUpTo(MaxLogRequests)

\* Overlapping attempts, with due-cards and stats queries between their steps.
LogNext ==
    \/ ArriveFew
    \/ LogAttemptAny
    \/ ReadScheduleAny
    \/ WriteScheduleAny
    \/ GetDueCards
    \/ GetStats

LogSpec == SeqInit /\ [][LogNext]_vars

\* ------------------------------------------------------ views/DeckList.vue

\* Cards in the deck the server serves.
MaxFetched == 6

\* The values of the quiz size radio buttons; 0 is null ("All Cards").
QuizSizes == {0, 1, 3, 5}

\* The decks GET /api/decks answers with, by id.
DecksTable == <<1>>

\* Card.tags (optional): undefined, or a string kept as the pieces between its
\* commas, as String.prototype.split(',') returns them ("" splits into <<"">>).
undefined == <<>>
CardTags == <<<<"Verb", " food">>, <<"verb">>, <<"">>, undefined>>

\* A card of the deck as fetched: the Card fields and its tags.
FetchedCard(i) == [id |-> i, frontText |-> SpanishText[((i - 1) % 4) + 1], backText |-> EnglishText[((i - 1) % 4) + 1], tags |-> CardTags[((i - 1) % 4) + 1]]

\* The rows of the deck in the order the server returns them (ids descending).
DeckRows == [i \in 1..MaxFetched |-> FetchedCard(MaxFetched + 1 - i)]

RECURSIVE SubSequences(_)
\* The lists an endpoint can answer with: rows of the deck in the server's order.
SubSequences(rows) ==
    IF rows = <<>> THEN {<<>>}
    ELSE LET rest == SubSequences(Tail(rows))
         IN  rest \cup {<<Head(rows)>> \o s : s \in rest}

\* What the tags input can hold: nothing, a blank, one tag, two tags with
\* capitals and blanks, and a tag no card has.
TagInputs == {<<"">>, <<" ">>, <<"verb">>, <<"Food ", "noun">>, <<"noun">>}

\* t.trim().toLowerCase() on the pieces that occur.
Normalize(t) ==
    CASE t = "Verb" -> "verb"
      [] t = " food" -> "food"
      [] t = "Food " -> "food"
      [] t = " " -> ""
      [] OTHER -> t

\* string.trim() is the empty string: one piece (no comma) that is blank.
TrimIsEmpty(string) == Len(string) = 1 /\ Normalize(string[1]) = ""

\* !card.tags: undefined or the empty string.
Falsy(tags) == tags = undefined \/ tags = <<"">>

\* string.split(',').map(t => t.trim().toLowerCase())
splitTags(string) == [k \in DOMAIN string |-> Normalize(string[k])]

\* The callback of cards.filter: filterTags.some(ft => cardTags.includes(ft)).
matchesTags(card, filterTags) ==
    /\ ~Falsy(card.tags)
    /\ LET cardTags == splitTags(card.tags)
       IN  \E k \in DOMAIN filterTags : \E m \in DOMAIN cardTags : cardTags[m] = filterTags[k]

\* The tag filter of startPractice and startReview.
filterByTags(fetched, tags) ==
    IF TrimIsEmpty(tags) THEN fetched
    ELSE SelectSeq(fetched, LAMBDA card : matchesTags(card, splitTags(tags)))

\* Math.floor(Math.random() * (i + 1)) for i = length - 1 down to 1: one index
\* of 0..i per iteration.
ShuffleDraws(length) == {js \in [1..(length - 1) -> 0..(length - 1)] : \A i \in 1..(length - 1) : js[i] <= i}

\* The draws with j = i in every iteration.
NoSwaps(length) == [i \in 1..(length - 1) |-> i]

\* [shuffled[i], shuffled[j]] = [shuffled[j], shuffled[i]], indices from 0.
Swap(shuffled, i, j) == [shuffled EXCEPT ![i + 1] = shuffled[j + 1], ![j + 1] = shuffled[i + 1]]

RECURSIVE ShuffleLoop(_, _, _)
\* The for loop of shuffleArray from index i down.
ShuffleLoop(shuffled, i, js) ==
    IF i > 0 THEN ShuffleLoop(Swap(shuffled, i, js[i]), i - 1, js) ELSE shuffled

\* shuffleArray sorting its argument in place and returning it
shuffleArray_inPlace(array, js) ==
    LET shuffled == ShuffleLoop(array, Len(array) - 1, js)
    IN  [shuffled |-> shuffled, array |-> shuffled]

\* shuffleArray: the array returned and the argument as the call leaves it.
shuffleArray(array, js) ==
    [shuffled |-> ShuffleLoop(array, Len(array) - 1, js), array |-> array]

\* array.slice(0, end) for end >= 0.
slice(array, end) == SubSeq(array, 1, IF end < Len(array) THEN end ELSE Len(array))

\* The truncation without the test of quizSize.value: null < cards.length
\* holds, and slice(0, null) is empty
truncate_noNullTest(filtered, size, js) ==
    IF size < Len(filtered)
    THEN LET call == shuffleArray(filtered, js)
         IN  [cards |-> slice(call.shuffled, size), called |-> TRUE, array |-> call.array, shuffled |-> call.shuffled]
    ELSE [cards |-> filtered, called |-> FALSE, array |-> filtered, shuffled |-> <<>>]

\* The quiz-size truncation: the list for the session, with the shuffleArray
\* call if one was made.
truncate(filtered, size, js) ==
    IF size # 0 /\ size < Len(filtered)
    THEN LET call == shuffleArray(filtered, js)
         IN  [cards |-> slice(call.shuffled, size), called |-> TRUE, array |-> call.array, shuffled |-> call.shuffled]
    ELSE [cards |-> filtered, called |-> FALSE, array |-> filtered, shuffled |-> <<>>]

\* The selection is rendered: neither "Loading..." nor the error replaces it.
SelectionShown == route = "DeckList" /\ ~loading /\ error = ""

\* onMounted: the refs as setup leaves them, fetchDecks up to its await.
Mounted ==
    /\ decks = <<>>
    /\ selectedDeckId = 0
    /\ selectedDirection = FORWARD
    /\ quizSize = 0
    /\ selectedTags = <<"">>
    /\ loading = TRUE
    /\ error = ""
    /\ pending = [op |-> "fetchDecks"]
    /\ startTrace = NONE

\* fetchDecks after its await.
fetchDecks(ok) ==
    /\ pending.op = "fetchDecks"
    /\ IF ok THEN decks' = DecksTable /\ UNCHANGED error
       ELSE error' = "Failed to fetch decks" /\ UNCHANGED decks
    /\ loading' = FALSE
    /\ pending' = NONE
    /\ UNCHANGED <<selectedDeckId, selectedDirection, quizSize, selectedTags, startTrace>>
    /\ UNCHANGED <<storeVars, lastCall, calls, viewVars>>

\* A click on a deck item.
selectDeck(id) ==
    /\ SelectionShown
    /\ selectedDeckId' = id
    /\ UNCHANGED <<decks, selectedDirection, quizSize, selectedTags, loading, error, pending, startTrace>>
    /\ UNCHANGED <<storeVars, lastCall, calls, viewVars>>

\* The options are rendered once a deck is selected (v-if="selectedDeckId").
OptionsShown == SelectionShown /\ selectedDeckId # 0

\* A direction radio button (v-model="selectedDirection").
setDirection(d) ==
    /\ OptionsShown
    /\ selectedDirection' = d
    /\ UNCHANGED <<decks, selectedDeckId, quizSize, selectedTags, loading, error, pending, startTrace>>
    /\ UNCHANGED <<storeVars, lastCall, calls, viewVars>>

\* A quiz size radio button (v-model="quizSize").
setQuizSize(size) ==
    /\ OptionsShown
    /\ quizSize' = size
    /\ UNCHANGED <<decks, selectedDeckId, selectedDirection, selectedTags, loading, error, pending, startTrace>>
    /\ UNCHANGED <<storeVars, lastCall, calls, viewVars>>

\* The tags input (v-model="selectedTags").
setTags(tags) ==
    /\ OptionsShown
    /\ selectedTags' = tags
    /\ UNCHANGED <<decks, selectedDeckId, selectedDirection, quizSize, loading, error, pending, startTrace>>
    /\ UNCHANGED <<storeVars, lastCall, calls, viewVars>>

\* startPractice and startReview up to their await.
startFetch(op) ==
    /\ OptionsShown
    /\ loading' = TRUE
    /\ error' = ""
    /\ pending' = [op |-> op]
    /\ UNCHANGED <<decks, selectedDeckId, selectedDirection, quizSize, selectedTags, startTrace>>
    /\ UNCHANGED <<storeVars, lastCall, calls, viewVars>>

\* The handler stops with a message: thrown and caught, or set before return.
stopWith(message) ==
    /\ error' = message
    /\ loading' = FALSE
    /\ pending' = NONE
    /\ UNCHANGED <<decks, selectedDeckId, selectedDirection, quizSize, selectedTags, startTrace>>
    /\ UNCHANGED <<storeVars, lastCall, calls, viewVars>>

\* startPractice and startReview after their await, with the truncation given.
startAfterFetch(ok, fetched, js, r) ==
    LET filtered == filterByTags(fetched, selectedTags)
        cut == truncate(filtered, quizSize, js)
    IN  IF ~ok THEN stopWith("Failed to fetch cards")
        ELSE IF Len(fetched) = 0 THEN stopWith("No cards")
        ELSE IF Len(filtered) = 0 THEN stopWith("No cards found with tags")
        ELSE /\ startSession(cut.cards, selectedDirection, r)
             /\ route' = "PracticeSession"
             /\ startTrace' = [op |-> pending.op, fetched |-> fetched, filtered |-> filtered, quizSize |-> quizSize, called |-> cut.called, array |-> cut.array, shuffled |-> cut.shuffled]
             /\ loading' = FALSE
             /\ pending' = NONE
             /\ UNCHANGED <<decks, selectedDeckId, selectedDirection, quizSize, selectedTags, error>>
             /\ UNCHANGED <<isFlipped, isTransitioning, timers, dispatches>>

\* One mounting of the view: the component is mounted over an idle store with
\* fetchDecks in flight, and is left by the router.push of a start.
DeckInit ==
    /\ StoreIdle
    /\ isFlipped = FALSE
    /\ isTransitioning = FALSE
    /\ timers = [record |-> <<>>, fade |-> 0]
    /\ dispatches = <<>>
    /\ route = "DeckList"
    /\ CalcIdle
    /\ ServerIdle
    /\ AuthIdle
    /\ Mounted

FetchDecksSettles == \E ok \in BOOLEAN : fetchDecks(ok)

SelectDeck == \E k \in DOMAIN decks : selectDeck(decks[k])

SetDirection == \E d \in CardDirection : setDirection(d)

SetQuizSize == \E size \in QuizSizes : setQuizSize(size)

SetTags == \E tags \in TagInputs : setTags(tags)

StartPractice == startFetch("startPractice")

StartReview == startFetch("startReview")

\* The fetch of a start settles: not ok, or a list of rows of the deck.
StartFetchSettles ==
    /\ pending.op \in {"startPractice", "startReview"}
    /\ \/ startAfterFetch(FALSE, <<>>, <<>>, 0)
       \/ \E fetched \in SubSequences(DeckRows) :
              LET filtered == filterByTags(fetched, selectedTags)
                  shuffles == truncate(filtered, quizSize, NoSwaps(Len(filtered))).called
              IN  \E js \in ShuffleDraws(IF shuffles THEN Len(filtered) ELSE 0) :
                      \E r \in DrawsFor(selectedDirection = RANDOM) :
                          startAfterFetch(TRUE, fetched, js, r)

outsideDeck == <<calcVars, serverVars, authVars>>

DeckNext ==
    \/ FetchDecksSettles /\ UNCHANGED outsideDeck
    \/ SelectDeck /\ UNCHANGED outsideDeck
    \/ SetDirection /\ UNCHANGED outsideDeck
    \/ SetQuizSize /\ UNCHANGED outsideDeck
    \/ SetTags /\ UNCHANGED outsideDeck
    \/ StartPractice /\ UNCHANGED outsideDeck
    \/ StartReview /\ UNCHANGED outsideDeck
    \/ StartFetchSettles /\ UNCHANGED outsideDeck

DeckSpec == DeckInit /\ [][DeckNext]_vars

\* ------------------------------------- server/src/index.ts, authMiddleware

\* getSessionExpiration (server/src/auth.ts): sessions last 30 days.
SessionDays == 30

\* Session ids generateSessionId hands out.
MaxIssued == 2

\* Rows of table users.
UserIds == {1, 2}

\* The clients whose requests the server handles, one request each at a time.
Clients == {"browser", "other"}

\* The instants the clock is sampled at: the start, and the days on which and
\* after which a session created at the start expires.
Instants == {0, SessionDays, SessionDays + 1}

\* A session_id cookie no session was ever stored under, and no cookie at all.
ForgedCookie == 99
NoCookie == 0

\* c.get('userId') when c.set was never called.
Unset == 0

\* getSessionExpiration(): 30 days from now.
getSessionExpiration(today) == today + SessionDays

\* The condition of c.set with >= in place of >
sessionAccepted_notStrict(sessionResult, at) ==
    sessionResult # {} /\ \E s \in sessionResult : s.expiresAt >= at

\* sessionResult.length > 0 && sessionResult[0].expiresAt > now
sessionAccepted(sessionResult, at) ==
    sessionResult # {} /\ \E s \in sessionResult : s.expiresAt > at

\* select ... from sessions where id = sessionId limit 1 (id is the primary key).
selectSession(sessionId) == {s \in sessions : s.id = sessionId}

\* authMiddleware up to its await: the cookie is read and the time taken. With
\* no cookie the middleware goes straight to next().
authMiddleware(client, path, cookie, credentials) ==
    /\ authReqs[client] = NONE
    /\ authReqs' = [authReqs EXCEPT ![client] =
            IF cookie = NoCookie
            THEN [op |-> path, cookie |-> cookie, credentials |-> credentials, pc |-> "next", userId |-> Unset, afterDelete |-> FALSE]
            ELSE [op |-> path, cookie |-> cookie, credentials |-> credentials, pc |-> "select", now |-> now, afterDelete |-> \E s \in deleted : s.id = cookie]]
    /\ UNCHANGED <<sessions, issued, deleted, now>>

\* authMiddleware after its await: c.set('userId', ...) if the session counts,
\* then next().
authSelect(client) ==
    /\ authReqs[client] # NONE
    /\ authReqs[client].pc = "select"
    /\ LET req == authReqs[client]
           sessionResult == selectSession(req.cookie)
       IN  authReqs' = [authReqs EXCEPT ![client] =
               [op |-> req.op, cookie |-> req.cookie, credentials |-> req.credentials, pc |-> "next", userId |-> IF sessionAccepted(sessionResult, req.now) THEN (CHOOSE s \in sessionResult : TRUE).userId ELSE Unset, afterDelete |-> req.afterDelete]]
    /\ UNCHANGED <<sessions, issued, deleted, now>>

\* The request is at its route handler.
AtHandler(client, path) ==
    /\ authReqs[client] # NONE
    /\ authReqs[client].pc = "next"
    /\ authReqs[client].op = path

\* GET /api/auth/me, as any route that reads c.get('userId').
meHandler(client) ==
    /\ AtHandler(client, "me")
    /\ authReqs' = [authReqs EXCEPT ![client] = NONE]
    /\ UNCHANGED <<sessions, issued, deleted, now>>

\* POST /api/auth/login: with the credentials of a user a session is created
\* under a new id; otherwise 401.
loginHandler(client) ==
    /\ AtHandler(client, "login")
    /\ authReqs' = [authReqs EXCEPT ![client] = NONE]
    /\ IF authReqs[client].credentials \in UserIds /\ issued < MaxIssued
       THEN /\ issued' = issued + 1
            /\ sessions' = sessions \cup {[id |-> issued + 1, userId |-> authReqs[client].credentials, expiresAt |-> getSessionExpiration(now)]}
       ELSE UNCHANGED <<sessions, issued>>
    /\ UNCHANGED <<deleted, now>>

\* POST /api/auth/logout: the session of the cookie is deleted; a failing
\* delete is logged and the answer is the same.
logoutHandler(client, deleteFails) ==
    /\ AtHandler(client, "logout")
    /\ authReqs' = [authReqs EXCEPT ![client] = NONE]
    /\ IF authReqs[client].cookie # NoCookie /\ ~deleteFails
       THEN /\ sessions' = sessions \ selectSession(authReqs[client].cookie)
            /\ deleted' = deleted \cup selectSession(authReqs[client].cookie)
       ELSE UNCHANGED <<sessions, deleted>>
    /\ UNCHANGED <<issued, now>>

\* The server just started: no session stored, no request received.
AuthInit ==
    /\ StoreIdle
    /\ ViewIdle
    /\ CalcIdle
    /\ ServerIdle
    /\ DeckIdle
    /\ AuthIdle

\* A request to a route that reads userId, with no cookie, a forged one, or
\* one a login handed out.
MeArrives ==
    \E client \in Clients, cookie \in {NoCookie, ForgedCookie} \cup 1..issued :
        authMiddleware(client, "me", cookie, 0)

\* A login with the credentials of a user or of nobody (0).
LoginArrives ==
    \E client \in Clients, credentials \in UserIds \cup {0} :
        authMiddleware(client, "login", NoCookie, credentials)

\* A logout with the cookie of a login, or with none.
LogoutArrives ==
    \E client \in Clients, cookie \in {NoCookie} \cup 1..issued :
        authMiddleware(client, "logout", cookie, 0)

AuthSelect == \E client \in Clients : authSelect(client)

MeHandler == \E client \in Clients : meHandler(client)

LoginHandler == \E client \in Clients : loginHandler(client)

LogoutHandler == \E client \in Clients, deleteFails \in BOOLEAN : logoutHandler(client, deleteFails)

\* Time passes, to a later instant.
AuthTick ==
    /\ \E t \in Instants : t > now /\ now' = t
    /\ UNCHANGED authVars

outsideAuth == <<storeVars, lastCall, calls, viewVars, calcVars, deckVars, cardAttempts, cardSchedule, lastHttp, reqs>>

AuthNext ==
    \/ MeArrives /\ UNCHANGED outsideAuth
    \/ LoginArrives /\ UNCHANGED outsideAuth
    \/ LogoutArrives /\ UNCHANGED outsideAuth
    \/ AuthSelect /\ UNCHANGED outsideAuth
    \/ MeHandler /\ UNCHANGED outsideAuth
    \/ LoginHandler /\ UNCHANGED outsideAuth
    \/ LogoutHandler /\ UNCHANGED outsideAuth
    \/ AuthTick /\ UNCHANGED outsideAuth

AuthSpec == AuthInit /\ [][AuthNext]_vars

\* ------------------------------------------------------------------ claims

\* A step that is a call of recordResult made while a card is current (accepted),
\* or while none is (the early return).
AcceptedRecord == lastCall'.op = "recordResult" /\ currentCard # null
RefusedRecord == lastCall'.op = "recordResult" /\ currentCard = null

\* C1: in every reachable state the position lies between 0 and the number of
\* cards, and there is exactly one result per position passed.
C1_PositionInvariant ==
    /\ 0 <= currentCardIndex
    /\ currentCardIndex <= Len(cards)
    /\ Len(results) = currentCardIndex

\* C1 witness: a run of two cards is exhausted, with two results recorded.
C1_Witness ==
    /\ Len(cards) = 2
    /\ currentCardIndex = 2
    /\ Len(results) = 2

\* C2: in a session started with N >= 1 cards, after k <= N calls of recordResult
\* the session is complete iff k = N, the >= test agrees with position = length,
\* and at k = N stats counts N cards, each either correct or missed.
C2_CompleteAfterN ==
    (Len(cards) >= 1 /\ calls <= Len(cards)) =>
        /\ isSessionComplete <=> (calls = Len(cards))
        /\ isSessionComplete <=> (currentCardIndex = Len(cards))
        /\ (calls = Len(cards)) =>
              /\ stats.totalCards = Len(cards)
              /\ stats.correctCount + stats.missedCount = Len(cards)

\* C2 witness: exactly N = 2 calls were made on a two-card session, now complete.
C2_Witness ==
    /\ Len(cards) = 2
    /\ calls = 2
    /\ lastCall.op = "recordResult"
    /\ isSessionComplete
    /\ stats.totalCards = 2

\* C3: a call of recordResult made while no card is current (unstarted, reset or
\* complete session) returns without throwing and changes neither the position,
\* the results, the stats, the cards, the policy nor the resolved direction.
C3_RefusedRecordIsNoOp ==
    [][RefusedRecord =>
          /\ UNCHANGED storeVars
          /\ stats' = stats
          /\ ~lastCall'.threw]_vars

\* C3 witness: a call of recordResult came after the one that completed a run.
C3_Witness ==
    /\ lastCall.op = "recordResult"
    /\ lastCall.from = "Complete"
    /\ calls > currentCardIndex
    /\ Len(results) = Len(cards)
    /\ ~lastCall.threw

\* C4 (as claimed): a call of startSession with an empty list changes neither the
\* cards, the position, the results nor the policy, and starts no session.
C4_EmptyStartRejected ==
    [][(lastCall'.op = "startSession" /\ lastCall'.arg[1] = <<>>) =>
          UNCHANGED <<cards, currentCardIndex, results, direction>>]_vars

\* C5: an accepted recordResult(correct) appends exactly the entry
\* {cardId of the current card, correct} after the earlier entries, which it
\* keeps, and advances the position by one; hence the i-th result is always
\* about the i-th card.
C5_AppendsCurrentCard ==
    /\ [](\A i \in 1..currentCardIndex :
              /\ i <= Len(results)
              /\ i <= Len(cards)
              /\ results[i].cardId = cards[i].id)
    /\ [][AcceptedRecord =>
             /\ results' = Append(results, [cardId |-> currentCard.id,
                                            correct |-> lastCall'.arg[1]])
             /\ currentCardIndex' = currentCardIndex + 1]_vars

\* C5 witness: two outcomes were recorded for two different cards, in order.
C5_Witness ==
    /\ lastCall.op = "recordResult"
    /\ Len(results) = 2
    /\ Len(cards) = 2
    /\ cards[1].id # cards[2].id
    /\ results[1].cardId = cards[1].id
    /\ results[2].cardId = cards[2].id
    /\ results[1].correct # results[2].correct

\* The results with correct = true, counted by position.
CorrectPositions == {i \in 1..Len(results) : results[i].correct}

\* C6: stats always describes the recorded results and nothing else: totalCards
\* is their number (the position), correctCount the number of correct ones,
\* missedCount the rest.
C6_StatsOverResults ==
    /\ stats.totalCards = Len(results)
    /\ stats.totalCards = currentCardIndex
    /\ stats.correctCount = Cardinality(CorrectPositions)
    /\ stats.missedCount = stats.totalCards - stats.correctCount
    /\ stats.correctCount + stats.missedCount = stats.totalCards

\* C6 witness: mid-session, one card answered (and missed), one still to come.
C6_Witness ==
    /\ Phase = "InProgress"
    /\ Len(cards) = 2
    /\ stats = [totalCards |-> 1, correctCount |-> 0, missedCount |-> 1]

\* C7: the texts shown follow the resolved direction of the current card, are
\* empty when the run is exhausted, and under a fixed policy the resolved
\* direction is the policy.
C7_TextsFollowDirection ==
    /\ (currentCardIndex < Len(cards) /\ currentCardDirection = FORWARD) =>
          /\ frontText = cards[currentCardIndex + 1].frontText
          /\ backText = cards[currentCardIndex + 1].backText
    /\ (currentCardIndex < Len(cards) /\ currentCardDirection = REVERSE) =>
          /\ frontText = cards[currentCardIndex + 1].backText
          /\ backText = cards[currentCardIndex + 1].frontText
    /\ (currentCardIndex = Len(cards)) => (frontText = "" /\ backText = "")
    /\ (direction \in {FORWARD, REVERSE}) => currentCardDirection = direction

\* C7 witness: the second card of a reverse run shows its back text as the prompt.
C7_Witness ==
    /\ direction = REVERSE
    /\ Len(cards) = 2
    /\ currentCardIndex = 1
    /\ frontText = cards[2].backText
    /\ backText = cards[2].frontText
    /\ frontText # backText

\* C8: the resolved direction is never "random"; startSession draws iff the
\* policy is random; an accepted recordResult draws iff the policy is random and
\* a card is left, and the one that completes the run leaves the resolved
\* direction as it was.
C8_RandomDraws ==
    /\ [](currentCardDirection \in {FORWARD, REVERSE})
    /\ [](lastCall.op = "startSession" => (lastCall.drew <=> direction = RANDOM))
    /\ [][AcceptedRecord =>
             /\ lastCall'.drew <=>
                   (direction = RANDOM /\ currentCardIndex' < Len(cards'))
             /\ (currentCardIndex' >= Len(cards')) =>
                   currentCardDirection' = currentCardDirection]_vars

\* C8 witness: under the random policy the first card was drawn forward and,
\* after its outcome, the second card was drawn reverse.
C8_Witness ==
    /\ direction = RANDOM
    /\ lastCall.op = "recordResult"
    /\ lastCall.drew
    /\ currentCardIndex = 1
    /\ Len(cards) = 2
    /\ currentCardDirection = REVERSE

\* C9: after reset every field has its initial value, no card is current and
\* stats is {0, 0, 0}.
C9_ResetClears ==
    (lastCall.op = "reset") =>
        /\ cards = <<>>
        /\ currentCardIndex = 0
        /\ results = <<>>
        /\ direction = FORWARD
        /\ currentCardDirection = FORWARD
        /\ currentCard = null
        /\ stats = [totalCards |-> 0, correctCount |-> 0, missedCount |-> 0]
        /\ Phase = "Idle"

\* C9 witness: reset was called on a run with outcomes recorded.
C9_Witness ==
    /\ lastCall.op = "reset"
    /\ lastCall.from = "Complete"
    /\ lastCall.fromIndex = 2
    /\ cards = <<>>

\* C10: after startSession with a non-empty list, whatever the state it was
\* called in, the position is 0, there are no results, and cards is the given
\* list in the given order.
C10_StartDiscardsRun ==
    (lastCall.op = "startSession" /\ lastCall.arg[1] # <<>>) =>
        /\ currentCardIndex = 0
        /\ results = <<>>
        /\ cards = lastCall.arg[1]
        /\ isSessionComplete = FALSE

\* C10 witness: a two-card session was started over a run that had an outcome
\* recorded and a card still to come.
C10_Witness ==
    /\ lastCall.op = "startSession"
    /\ lastCall.from = "InProgress"
    /\ lastCall.fromIndex = 1
    /\ Len(cards) = 2
    /\ cards[1].id # cards[2].id
    /\ results = <<>>

\* 300 ms callbacks that have run.
Fired == Len(dispatches) - Len(timers.record)

Min(a, b) == IF a <= b THEN a ELSE b

\* A step in which a fetch settled and no new one was started.
SettleStep == dispatches' # dispatches /\ Len(dispatches') = Len(dispatches)

\* C11: the session's position, results and stats are determined by the answers
\* whose 300 ms callback has run, whatever became of the POSTs (pending, 2xx,
\* failed), and a settling POST changes nothing of the session.
C11_SessionIgnoresDispatch ==
    /\ [](/\ currentCardIndex = Min(Fired, Len(cards))
          /\ Len(results) = currentCardIndex
          /\ stats.totalCards = currentCardIndex
          /\ \A i \in 1..Len(results) :
                /\ i <= Len(dispatches)
                /\ i <= Len(cards)
                /\ results[i] = [cardId |-> cards[i].id,
                                 correct |-> dispatches[i].correct])
    /\ [][SettleStep =>
             /\ UNCHANGED <<storeVars, timers, route>>
             /\ stats' = stats]_vars

\* C11 witness: a two-card session ran to completion while the first POST had
\* failed and the second was still in flight.
C11_Witness ==
    /\ Len(cards) = 2
    /\ isSessionComplete
    /\ Len(results) = 2
    /\ Len(dispatches) = 2
    /\ dispatches[1].status = "failed"
    /\ dispatches[2].status = "pending"
    /\ route = "SessionResults"

C13_IncorrectOutcome ==
    (calcOut # NONE /\ ~calcIn.correct) =>
        /\ calcOut.repetitions = 0
        /\ calcOut.intervalDays = 1
        /\ calcOut.easeFactor =
              (IF calcIn.currentEase - 2 >= 13 THEN calcIn.currentEase - 2 ELSE 13)

\* C13 witness: a miss at ease 1.4, interval 15, 3 repetitions: the ease factor
\* stops at 1.3.
C13_Witness ==
    /\ calcOut # NONE
    /\ ~calcIn.correct
    /\ calcIn.currentEase = 14
    /\ calcIn.currentInterval = 15
    /\ calcIn.currentRepetitions = 3
    /\ calcOut = [intervalDays |-> 1, easeFactor |-> 13, repetitions |-> 0,
                  nextReviewDate |-> calcIn.today + 1]

\* The outcomes logged for a card, oldest first.
Outcomes(cardId) ==
    LET logged == SelectSeq(cardAttempts, LAMBDA a : a.cardId = cardId)
    IN  [i \in DOMAIN logged |-> logged[i].correct]

\* The schedule rows stored for a card.
RowsOf(cardId) == SelectSeq(cardSchedule, LAMBDA row : row.cardId = cardId)

\* interval, ease and repetitions of a schedule
Cadence(schedule) ==
    <<schedule.intervalDays, schedule.easeFactor, schedule.repetitions>>

\* The intervals of an unbroken run of correct outcomes from a fresh card.
ExpectedIntervals == <<1, 6, 15, 38, 95, 238, 595, 1488, 3720>>

\* C14: while every outcome of a fresh card is correct, the k-th attempt stores
\* the k-th of the intervals 1, 6, 15, 38, ..., each from the third on being
\* the one before times 2.5 with a half rounded up; repetitions is k and the
\* ease factor 2.5.
C14_CorrectRun ==
    LET outcomes == Outcomes(1)
        k == Len(outcomes)
    IN  (k >= 1 /\ k <= Len(ExpectedIntervals) /\ \A i \in 1..k : outcomes[i]) =>
            /\ Len(RowsOf(1)) = 1
            /\ Cadence(RowsOf(1)[1]) = <<ExpectedIntervals[k], 25, k>>
            /\ lastHttp.status = 201
            /\ Cadence(lastHttp.schedule[1]) = <<ExpectedIntervals[k], 25, k>>
            /\ (k > 2) =>
                  ExpectedIntervals[k] = (5 * ExpectedIntervals[k - 1] + 1) \div 2

\* C14 witness: four correct attempts in a row have stored the interval 38.
C14_Witness ==
    /\ Outcomes(1) = <<TRUE, TRUE, TRUE, TRUE>>
    /\ Len(RowsOf(1)) = 1
    /\ Cadence(RowsOf(1)[1]) = <<38, 25, 4>>

\* calculateNextReview folded over outcomes, from a starting schedule
RECURSIVE FoldOutcomes(_, _)
FoldOutcomes(outcomes, schedule) ==
    IF outcomes = <<>> THEN schedule
    ELSE FoldOutcomes(Tail(outcomes),
                      calculateNextReview(Head(outcomes), schedule.intervalDays,
                                          schedule.easeFactor, schedule.repetitions,
                                          now))

\* The records the run T, T, T, F stores, attempt by attempt.
ExampleRun == <<TRUE, TRUE, TRUE, FALSE>>
ExampleCadences == <<<<1, 25, 1>>, <<6, 25, 2>>, <<15, 25, 3>>, <<1, 23, 0>>>>

\* C15: attempts on one card handled one after the other all succeed, the first
\* one too, which finds no record; the record stored after k of them is
\* calculateNextReview folded over the k outcomes from (1, 2.5, 0); the run
\* T, T, T, F stores (1, reps 1), (6, reps 2), (15, reps 3), (1, reps 0,
\* ease 2.3).
C15_StoredIsFold ==
    LET outcomes == Outcomes(1)
        k == Len(outcomes)
        rows == RowsOf(1)
    IN  /\ (k = 0) => (rows = <<>> /\ lastHttp = NONE)
        /\ (k > 0) =>
              /\ lastHttp.status = 201
              /\ Len(rows) = 1
              /\ Cadence(rows[1]) = Cadence(FoldOutcomes(outcomes, initializeSchedule(now)))
              /\ lastHttp.schedule = <<FoldOutcomes(outcomes, initializeSchedule(now))>>
              /\ (k <= 4 /\ outcomes = SubSeq(ExampleRun, 1, k)) =>
                    Cadence(rows[1]) = ExampleCadences[k]

\* C15 witness: the run T, T, T, F has been handled and left (1, 2.3, 0).
C15_Witness ==
    /\ Outcomes(1) = ExampleRun
    /\ Len(RowsOf(1)) = 1
    /\ Cadence(RowsOf(1)[1]) = <<1, 23, 0>>
    /\ lastHttp.status = 201

\* C16: every stored schedule row has an interval of at least 1 day, an ease
\* factor of at least 1.3 and no negative repetitions.
C16_StoredRanges ==
    \A i \in DOMAIN cardSchedule :
        /\ cardSchedule[i].intervalDays >= 1
        /\ cardSchedule[i].easeFactor >= 13
        /\ cardSchedule[i].repetitions >= 0

\* C16 witness: eight misses in a row, the ease factor held at 1.3 since the
\* sixth.
C16_Witness ==
    /\ Len(Outcomes(1)) = 8
    /\ \A i \in 1..8 : ~Outcomes(1)[i]
    /\ Len(RowsOf(1)) = 1
    /\ Cadence(RowsOf(1)[1]) = <<1, 13, 0>>

\* The last step answered a due-cards query with a list.
DueAnswered == lastHttp.op = "dueCards" /\ lastHttp.status = 200

\* A card is due now: it has no schedule row, or its review date has come.
IsDueNow(cardId) ==
    \/ RowsOf(cardId) = <<>>
    \/ RowsOf(cardId)[1].nextReviewDate <= now

\* The ids of a list of cards, in order.
IdsOf(list) == [i \in DOMAIN list |-> list[i].id]

\* C19: a due-cards answer lists exactly the deck's cards that have no schedule
\* row or whose nextReviewDate is now or earlier, in the order the deck's cards
\* were listed, and the query writes to neither table.
C19_DueSelection ==
    /\ [](DueAnswered =>
            LET listed == IdsOf(lastHttp.deckCards)
                deck == {CardsTable[i].id : i \in
                            {j \in DOMAIN CardsTable :
                                CardsTable[j].deckId = lastHttp.deckId.value}}
            IN  /\ {listed[i] : i \in DOMAIN listed} = deck
                /\ Len(listed) = Cardinality(deck)
                /\ IdsOf(lastHttp.body) = SelectSeq(listed, IsDueNow)
                /\ \A i \in DOMAIN lastHttp.body :
                      lastHttp.body[i].deckId = lastHttp.deckId.value)
    /\ [][lastHttp'.op = "dueCards" => UNCHANGED <<cardAttempts, cardSchedule>>]_vars

\* C19 witness: of the cards 1, 2, 3, listed in that order, 1 has no schedule,
\* 2 was due yesterday and 3 is due tomorrow; the answer is 1, 2.
C19_Witness ==
    /\ DueAnswered
    /\ IdsOf(lastHttp.deckCards) = <<1, 2, 3>>
    /\ RowsOf(1) = <<>>
    /\ Len(RowsOf(2)) = 1 /\ RowsOf(2)[1].nextReviewDate < now
    /\ Len(RowsOf(3)) = 1 /\ RowsOf(3)[1].nextReviewDate > now
    /\ IdsOf(lastHttp.body) = <<1, 2>>

\* C20: an attempt handled on day t with new interval d stores the review date
\* t + d; until the card's next attempt a due-cards answer leaves the card out
\* on every day before t + d and lists it on t + d and every later day.
C20_DueFromReviewDate ==
    /\ \A i \in DOMAIN cardSchedule :
          /\ cardSchedule[i].updatedAt <= now
          /\ cardSchedule[i].nextReviewDate =
                cardSchedule[i].updatedAt + cardSchedule[i].intervalDays
    /\ (lastHttp.op = "postAttempt" /\ lastHttp.status = 201) =>
          lastHttp.schedule[1].nextReviewDate = now + lastHttp.schedule[1].intervalDays
    /\ DueAnswered =>
          \A i \in DOMAIN cardSchedule :
              LET row == cardSchedule[i]
                  listed == \E j \in DOMAIN lastHttp.body : lastHttp.body[j].id = row.cardId
              IN  CardsTable[row.cardId].deckId = lastHttp.deckId.value =>
                      (listed <=> now >= row.updatedAt + row.intervalDays)

\* C20 witness: card 1, attempted on day 0 with interval 1, is listed on day 1,
\* the day its review falls on; card 2, attempted on day 1, is not.
C20_Witness ==
    /\ DueAnswered
    /\ now = 1
    /\ Len(RowsOf(1)) = 1 /\ RowsOf(1)[1].updatedAt = 0 /\ RowsOf(1)[1].intervalDays = 1
    /\ Len(RowsOf(2)) = 1 /\ RowsOf(2)[1].updatedAt = 1
    /\ \E j \in DOMAIN lastHttp.body : lastHttp.body[j].id = 1
    /\ \A j \in DOMAIN lastHttp.body : lastHttp.body[j].id # 2

\* C17: no card ever has more than one schedule row, whichever way the
\* statements of overlapping requests interleave.
C17_OneRowPerCard == \A cardId \in CardIds : Len(RowsOf(cardId)) <= 1

\* C17 witness: two first attempts on card 1 both found no row; one inserted
\* its row and answered 201, the other's insert was refused and it answered
\* 500; both attempts are logged.
C17_Witness ==
    /\ \E i, j \in DOMAIN reqs :
          /\ i # j
          /\ reqs[i].cardId = 1 /\ reqs[j].cardId = 1
          /\ reqs[i].existingSchedule = <<>> /\ reqs[j].existingSchedule = <<>>
          /\ reqs[i].pc = "done" /\ reqs[i].status = 201
          /\ reqs[j].pc = "done" /\ reqs[j].status = 500
    /\ Len(RowsOf(1)) = 1
    /\ Len(Outcomes(1)) = 2

\* The requests for a card whose attempt has been logged.
LoggedRequests(cardId) ==
    {i \in DOMAIN reqs :
        /\ reqs[i].cardId = cardId
        /\ \/ reqs[i].pc \in {"select", "write"}
           \/ reqs[i].pc = "done" /\ reqs[i].status # 400}

\* Request i writes the schedule in this step, over a row it had read.
Overwrites(i) ==
    /\ reqs[i].pc = "write"
    /\ reqs[i].existingSchedule # <<>>
    /\ reqs'[i].pc = "done"
    /\ reqs'[i].status = 201

\* C18: every request that got past validation has its attempt in the log, and
\* a request that read a row stores calculateNextReview of its own outcome on
\* the row as it read it, whatever another request has stored in between: of
\* two requests that read the same row, the one that writes last decides.
C18_LastWriterWins ==
    /\ [](\A cardId \in CardIds :
            Len(Outcomes(cardId)) = Cardinality(LoggedRequests(cardId)))
    /\ [][\A i \in DOMAIN reqs :
            Overwrites(i) =>
                LET prior == reqs[i].existingSchedule[1]
                    once == calculateNextReview(reqs[i].correct, prior.intervalDays,
                                                prior.easeFactor, prior.repetitions,
                                                now)
                    stored == SelectSeq(cardSchedule',
                                        LAMBDA row : row.cardId = reqs[i].cardId)
                IN  /\ Len(stored) = 1
                    /\ Cadence(stored[1]) = Cadence(once)
                    /\ stored[1].nextReviewDate = once.nextReviewDate]_vars

\* C18 witness: after a first correct attempt on card 1 stored (1, 2.5, 1), two
\* more correct attempts both read that row and both answered 201; three
\* attempts are logged, the row holds (6, 2.5, 2), and handled in sequence
\* they would have left (15, 2.5, 3).
C18_Witness ==
    /\ \E i, j \in DOMAIN reqs :
          /\ i # j
          /\ reqs[i].cardId = 1 /\ reqs[j].cardId = 1
          /\ reqs[i].pc = "done" /\ reqs[i].status = 201
          /\ reqs[j].pc = "done" /\ reqs[j].status = 201
          /\ reqs[i].existingSchedule = reqs[j].existingSchedule
          /\ Len(reqs[i].existingSchedule) = 1
          /\ Cadence(reqs[i].existingSchedule[1]) = <<1, 25, 1>>
    /\ Outcomes(1) = <<TRUE, TRUE, TRUE>>
    /\ Len(RowsOf(1)) = 1
    /\ Cadence(RowsOf(1)[1]) = <<6, 25, 2>>
    /\ Cadence(FoldOutcomes(Outcomes(1), initializeSchedule(now))) = <<15, 25, 3>>

\* The last step answered a stats query with the counts.
StatsAnswered == lastHttp.op = "stats" /\ lastHttp.status = 200

\* The cards of a deck.
CardsOfDeck(deckId) ==
    {CardsTable[i].id : i \in {j \in DOMAIN CardsTable : CardsTable[j].deckId = deckId}}

C22_AccuracyRounded ==
    (calcOut # NONE /\ calcIn.op = "accuracy") =>
        /\ calcIn.correctAttempts <= calcIn.totalAttempts
        /\ calcOut.accuracy \in 0..100
        /\ (calcIn.totalAttempts = 0) => calcOut.accuracy = 0
        /\ (calcIn.totalAttempts > 0) =>
              calcOut.accuracy =
                  (200 * calcIn.correctAttempts + calcIn.totalAttempts)
                      \div (2 * calcIn.totalAttempts)

\* A body POST /api/attempts must refuse.
Malformed(body) ==
    \/ typeof(body.cardId) # "number"
    \/ typeof(body.correct) # "boolean"
    \/ body.cardId.value \notin CardIds

\* C23: whatever the tables hold, a report whose cardId is not a number, whose
\* correct is not a boolean, or whose cardId names no card is answered with an
\* error and leaves the attempt log and the schedule as they were; and no
\* request answered with an error has changed either table.
C23_MalformedRejected ==
    /\ [](\A body \in {b \in AttemptBodies : Malformed(b)} :
            LET after == postAttempt(body, cardAttempts, cardSchedule, now)
            IN  /\ after.response.status \in {400, 500}
                /\ after.attempts = cardAttempts
                /\ after.schedule = cardSchedule)
    /\ [][(lastHttp'.op = "postAttempt" /\ lastHttp'.status # 201)
            => UNCHANGED <<cardAttempts, cardSchedule>>]_vars

\* C23 witness: with an attempt logged and a schedule stored, a report for a
\* card that does not exist has just been answered 500.
C23_Witness ==
    /\ lastHttp.op = "postAttempt"
    /\ lastHttp.status = 500
    /\ Len(cardAttempts) = 1
    /\ Len(cardSchedule) = 1

\* The log before the step is the beginning of the log after it.
LogExtended ==
    /\ Len(cardAttempts') >= Len(cardAttempts)
    /\ SubSeq(cardAttempts', 1, Len(cardAttempts)) = cardAttempts

\* Request i reads or writes the schedule in this step.
TouchesSchedule(i) ==
    /\ reqs[i].pc \in {"select", "write"}
    /\ reqs'[i].pc # reqs[i].pc

\* The requests for a card that have written its schedule row.
ScheduleWrites(cardId) ==
    {i \in DOMAIN reqs :
        reqs[i].cardId = cardId /\ reqs[i].pc = "done" /\ reqs[i].status = 201}

\* C24: no step of an attempt, a due-cards query or a stats query changes or
\* removes a logged attempt; a well-formed attempt appends exactly one record,
\* its own, and has done so before it reads or writes the schedule; the
\* queries write nothing; and no card has more schedule writes than logged
\* attempts.
C24_AppendOnlyLog ==
    /\ [][LogExtended]_vars
    /\ [][\A i \in DOMAIN reqs :
            /\ (reqs[i].pc = "insertAttempt" /\ reqs'[i].pc = "select") =>
                  cardAttempts' = Append(cardAttempts,
                                         [cardId |-> reqs[i].cardId,
                                          correct |-> reqs[i].correct])
            /\ TouchesSchedule(i) =>
                  /\ cardAttempts' = cardAttempts
                  /\ \E k \in DOMAIN cardAttempts :
                        cardAttempts[k] = [cardId |-> reqs[i].cardId,
                                           correct |-> reqs[i].correct]]_vars
    /\ [][cardAttempts' # cardAttempts =>
            \E i \in DOMAIN reqs :
                reqs[i].pc = "insertAttempt" /\ reqs'[i].pc = "select"]_vars
    /\ [][lastHttp'.op \in {"dueCards", "stats"} =>
            UNCHANGED <<cardAttempts, cardSchedule>>]_vars
    /\ [](\A cardId \in CardIds :
            /\ Len(Outcomes(cardId)) = Cardinality(LoggedRequests(cardId))
            /\ Cardinality(ScheduleWrites(cardId)) <= Len(Outcomes(cardId)))

\* C24 witness: two attempts on card 1 are logged, one has written the
\* schedule and the other has not yet, and a stats query has just been
\* answered.
C24_Witness ==
    /\ Len(Outcomes(1)) = 2
    /\ Cardinality(ScheduleWrites(1)) = 1
    /\ \E i \in DOMAIN reqs : reqs[i].cardId = 1 /\ reqs[i].pc = "write"
    /\ StatsAnswered

\* How often the pair (cardId, correct) occurs in a list of records.
Occurrences(list, cardId, correct) ==
    Cardinality({i \in DOMAIN list :
                    list[i].cardId = cardId /\ list[i].correct = correct})

\* C25: once every 300 ms callback has run, the (cardId, correct) pairs sent
\* to POST /api/attempts and the entries of the session's results are the
\* same multiset, also when answers were clicked faster than the callbacks
\* ran.
C25_DispatchedEqualsRecorded ==
    (timers.record = <<>>) =>
        \A i \in DOMAIN cards, correct \in BOOLEAN :
            Occurrences(dispatches, cards[i].id, correct) =
                Occurrences(results, cards[i].id, correct)

\* C26: a call of recordResult leaves cards and direction as they are and,
\* when the policy is not random, currentCardDirection too; a step that changes
\* cards or direction is a call of startSession or reset.
C26_RecordKeepsSequence ==
    [][/\ (lastCall'.op = "recordResult") =>
             /\ cards' = cards
             /\ direction' = direction
             /\ (direction # RANDOM) => currentCardDirection' = currentCardDirection
       /\ (cards' # cards \/ direction' # direction) =>
             lastCall'.op \in {"startSession", "reset"}]_vars

\* C26 witness: both cards of a reverse session have been recorded; the cards,
\* the policy and the card direction are those of the start.
C26_Witness ==
    /\ lastCall.op = "recordResult"
    /\ Len(cards) = 2
    /\ Len(results) = 2
    /\ direction = REVERSE
    /\ currentCardDirection = REVERSE

\* This step logs a correct attempt on the card right after a correct one.
SecondCorrectInARow(cardId) ==
    LET before == SelectSeq(cardAttempts, LAMBDA a : a.cardId = cardId)
        after == SelectSeq(cardAttempts', LAMBDA a : a.cardId = cardId)
    IN  /\ Len(before) >= 1
        /\ Len(after) = Len(before) + 1
        /\ before[Len(before)].correct
        /\ after[Len(after)].correct

StoreWritten == cards' # cards \/ lastCall' # lastCall

StartOps == {"startPractice", "startReview"}

\* C28: every session the deck list starts has at least one card: whenever
\* startPractice or startReview has called startSession, the fetched list and the
\* list left by the tag filter were non-empty and the session holds at least one
\* card, whatever the quiz size; the store is written by these calls only.
C28_StartedSessionsNonEmpty ==
    /\ [](lastCall.op = "startSession" =>
            /\ startTrace # NONE
            /\ Len(startTrace.fetched) >= 1
            /\ Len(startTrace.filtered) >= 1
            /\ Len(cards) >= 1
            /\ Len(lastCall.arg[1]) >= 1)
    /\ [][StoreWritten =>
            /\ pending.op \in StartOps
            /\ lastCall'.op = "startSession"
            /\ Len(cards') >= 1]_vars

\* A review started with a tag filter set and a quiz size that cut the list.
C28_Witness ==
    /\ lastCall.op = "startSession"
    /\ startTrace # NONE
    /\ startTrace.op = "startReview"
    /\ ~TrimIsEmpty(selectedTags)
    /\ quizSize = 1
    /\ startTrace.called
    /\ Len(startTrace.filtered) = 3
    /\ Len(cards) = 1

\* How often x occurs in the list.
CountIn(list, x) == Cardinality({k \in DOMAIN list : list[k] = x})

\* The two lists hold the same elements the same number of times.
IsPermutation(a, b) ==
    /\ Len(a) = Len(b)
    /\ \A k \in DOMAIN a : CountIn(a, a[k]) = CountIn(b, a[k])

\* C29: with a quiz size set the session gets min(quizSize, n) distinct cards
\* of the n cards the tag filter left, and without one all n cards in their
\* fetched order; the shuffleArray call of the truncation returns a permutation
\* of its input and leaves the input array as it was.
C29_QuizSizeTruncation ==
    lastCall.op = "startSession" /\ startTrace # NONE =>
        LET n == Len(startTrace.filtered)
            filtered == startTrace.filtered
        IN  /\ cards = lastCall.arg[1]
            /\ startTrace.quizSize # 0 =>
                  /\ Len(cards) = Min(startTrace.quizSize, n)
                  /\ \A k, m \in DOMAIN cards : k # m => cards[k] # cards[m]
                  /\ \A k \in DOMAIN cards : \E m \in DOMAIN filtered : cards[k] = filtered[m]
            /\ startTrace.quizSize = 0 =>
                  /\ cards = filtered
                  /\ filtered = SelectSeq(startTrace.fetched, LAMBDA card : CountIn(filtered, card) > 0)
            /\ startTrace.called =>
                  /\ IsPermutation(startTrace.shuffled, filtered)
                  /\ startTrace.array = filtered
                  /\ cards = SubSeq(startTrace.shuffled, 1, Len(cards))

\* A quiz of 5 cards cut from 6 by a shuffle that moved cards.
C29_Witness ==
    /\ lastCall.op = "startSession"
    /\ startTrace # NONE
    /\ startTrace.quizSize = 5
    /\ startTrace.called
    /\ Len(startTrace.filtered) = 6
    /\ Len(cards) = 5
    /\ startTrace.shuffled # startTrace.filtered

\* The request of the client has passed authMiddleware.
PastMiddleware(req) == req # NONE /\ req.pc = "next"

\* C30: a request reaches its handler with userId set only if, when the
\* middleware looked it up, its cookie named a stored session whose expiresAt
\* was strictly later than the time the request took on arrival, and userId is
\* that session's user; a request that arrives with the cookie of a session a
\* logout has deleted reaches its handler with userId unset.
C30_UserIdOnlyForLiveSession ==
    /\ [][\A client \in Clients :
            (/\ PastMiddleware(authReqs'[client])
             /\ authReqs'[client] # authReqs[client]
             /\ authReqs'[client].userId # Unset) =>
                /\ authReqs[client] # NONE
                /\ authReqs[client].pc = "select"
                /\ \E s \in sessions :
                      /\ s.id = authReqs[client].cookie
                      /\ s.expiresAt > authReqs[client].now
                      /\ authReqs'[client].userId = s.userId]_vars
    /\ [](\A client \in Clients :
            PastMiddleware(authReqs[client]) /\ authReqs[client].afterDelete =>
                authReqs[client].userId = Unset)

\* A request carrying the cookie of a logged-out session that would not have
\* expired yet is at its handler without userId, while a request of the other
\* client is at its handler with the userId of a live session.
C30_Witness ==
    /\ PastMiddleware(authReqs["browser"])
    /\ authReqs["browser"].op = "me"
    /\ authReqs["browser"].afterDelete
    /\ authReqs["browser"].userId = Unset
    /\ \E s \in deleted : s.id = authReqs["browser"].cookie /\ s.expiresAt > now
    /\ PastMiddleware(authReqs["other"])
    /\ authReqs["other"].userId # Unset

====
